---- MODULE Spec2Model ----
(***************************************************************************)
(* A model of the rust-ai-sdk request executor (src/client.rs), its error  *)
(* classification (src/error.rs) and its stream aggregator                 *)
(* (src/stream.rs, src/sse.rs).                                            *)
(*                                                                         *)
(* Durations are integers in milliseconds.  Every duration the model draws *)
(* is a multiple of 500 ms, which f32 seconds represent exactly, so the    *)
(* Duration -> f32 -> Duration conversions of the backoff arithmetic are   *)
(* exact on the modelled values.                                           *)
(***************************************************************************)
EXTENDS Integers, Sequences, FiniteSets, TLC

VARIABLES
    cfg,        \* ClientConfig of the shared Client
    server,     \* environment: which server answers, see ServerResponses
    mode,       \* "stream" (execute_stream) or "complete" (execute_complete)
    pc,         \* position of the send: "start", "await", "sleep", "done"
    attempt,    \* local `attempt`
    backoff,    \* local `backoff`, ms
    result,     \* what the send returned
    posts,      \* history: number of HTTP POSTs issued by this send
    sleeps,     \* history: base delay (before jitter) of every sleep, ms
    slept,      \* history: duration of the last sleep with jitter, ms * 100
    log,        \* history: every response received by this send
    provider,   \* the adapter the model identifier of the request selects
    bodies,     \* environment: which response bodies it streams, see ServerBodies
    life,       \* the CompletionStream: "none", "live", or "consumed" (moved into finalize)
    cs,         \* the fields of the CompletionStream
    spc,        \* "idle", or "polling" while a next() call awaits the transport
    wire,       \* the bytes the server sends on the response body
    off,        \* how many of them the transport has delivered
    inner,      \* the transport: "open", "failed" or "closed"
    returned,   \* history: what every next() call returned
    final,      \* history: what finalize() returned
    arg,        \* an Error value a caller classifies
    verdict,    \* what Error::is_retryable answered for it, "unset" before the call
    parser,     \* an SseParser driven directly
    blocks,     \* the SSE events of the byte stream it is fed
    fed,        \* how many bytes of that stream have been fed
    bytewise,   \* history: every feed() so far passed a single byte
    events,     \* history: the data of every event next_event() returned
    lastcall,   \* history: the next_event() call made since the last feed(), if any
    total,      \* a Usage that other Usage values are merged into
    merged,     \* history: the Usage values merged into it
    accum,      \* the builders of a ToolCallAccumulator driven directly
    deltas,     \* history: the deltas applied to it
    built,      \* what its finalize() returned
    request,    \* the fields of a RequestBuilder: model string and streaming flag
    model_id,   \* what ModelId::parse returned for the model string
    api_keys,   \* the provider names the Client holds a key for
    environ,    \* the names of the environment variables that are set
    peer        \* the locals of a second send running on the same Client

sendVars == <<cfg, server, mode, pc, attempt, backoff, result, posts, sleeps, slept, log>>
envVars == <<provider, bodies>>
streamVars == <<life, cs, spc, wire, off, inner, returned, final>>
probeVars == <<arg, verdict>>
sseVars == <<parser, blocks, fed, bytewise, events, lastcall>>
usageVars == <<total, merged>>
toolVars == <<accum, deltas, built>>
requestVars == <<request, model_id, api_keys, environ>>
peerVars == <<peer>>
callVars == <<requestVars, peerVars>>
unitVars == <<sseVars, usageVars, toolVars, callVars>>
vars == <<sendVars, envVars, streamVars, probeVars, unitVars>>

Unset == [set |-> FALSE, retryable |-> FALSE]

None == [some |-> FALSE, v |-> 0]
Some(x) == [some |-> TRUE, v |-> x]

Min(a, b) == IF a <= b THEN a ELSE b
Max(a, b) == IF a >= b THEN a ELSE b

(***************************************************************************)
(* ClientConfig.  The builder sets max_retries and retry_backoff; nothing  *)
(* sets max_backoff or backoff_multiplier, which keep their defaults.      *)
(***************************************************************************)
DefaultMaxRetries == 3
DefaultRetryBackoffMs == 500
MaxBackoffMs == 30000
BackoffMultiplier == 2
MsPerSec == 1000

\* Largest max_retries the model configures.
MaxRetriesBound == 3

RetryBackoffs == {DefaultRetryBackoffMs, 16000, 40000}

Configs ==
    [max_retries : 0..MaxRetriesBound,
     retry_backoff : RetryBackoffs,
     max_backoff : {MaxBackoffMs},
     backoff_multiplier : {BackoffMultiplier}]

DefaultConfig ==
    [max_retries |-> DefaultMaxRetries,
     retry_backoff |-> DefaultRetryBackoffMs,
     max_backoff |-> MaxBackoffMs,
     backoff_multiplier |-> BackoffMultiplier]

(***************************************************************************)
(* Error values (src/error.rs).  One record shape for every kind; fields a *)
(* kind does not carry hold a default.                                     *)
(***************************************************************************)
ErrorKinds ==
    {"RateLimited", "Unauthorized", "Server", "Api", "Timeout", "Parse",
     "InvalidModel", "MissingApiKey", "Http", "StreamConsumed", "Config"}

Err(kind, status, retry_after, message) ==
    [kind |-> kind, status |-> status, retry_after |-> retry_after, message |-> message]

RateLimited(retry_after) == Err("RateLimited", 0, retry_after, "")
Unauthorized == Err("Unauthorized", 0, None, "")
ServerError(status) == Err("Server", status, None, "")
ApiError(status, message) == Err("Api", status, None, message)
Timeout == Err("Timeout", 0, None, "")
ParseError == Err("Parse", 0, None, "")
HttpError == Err("Http", 0, None, "")
StreamConsumed == Err("StreamConsumed", 0, None, "")
NoError == Err("none", 0, None, "")

is_retryable_without_server(e) == e.kind \in {"RateLimited", "Timeout"}

is_retryable(e) == e.kind \in {"RateLimited", "Server", "Timeout"}

(***************************************************************************)
(* Responses of the network to one POST.  A header value is a sequence of  *)
(* one-character strings; a body is the text the server sent and whether   *)
(* reading it succeeds.                                                    *)
(***************************************************************************)
Digits == {"0", "1", "2", "3", "4", "5", "6", "7", "8", "9"}

DigitVal(c) ==
    CASE c = "0" -> 0 [] c = "1" -> 1 [] c = "2" -> 2 [] c = "3" -> 3 [] c = "4" -> 4
      [] c = "5" -> 5 [] c = "6" -> 6 [] c = "7" -> 7 [] c = "8" -> 8 [] c = "9" -> 9

\* Bytes HeaderValue::to_str rejects: anything that is not visible ASCII.
NonAsciiBytes == {"\\x80"}

RECURSIVE DigitsValue(_, _)
DigitsValue(s, acc) ==
    IF s = <<>> THEN acc ELSE DigitsValue(Tail(s), acc * 10 + DigitVal(Head(s)))

\* str::parse::<u64>: an optional leading '+', then one or more decimal digits.
parse_u64(s) ==
    LET digits == IF s # <<>> /\ Head(s) = "+" THEN Tail(s) ELSE s
    IN IF digits # <<>> /\ \A i \in 1..Len(digits) : digits[i] \in Digits
       THEN Some(DigitsValue(digits, 0))
       ELSE None

NoHeader == [present |-> FALSE, value |-> <<>>]
Header(v) == [present |-> TRUE, value |-> v]

parse_retry_after_unit_ms(h) ==
    IF ~h.present THEN None
    ELSE IF \E i \in 1..Len(h.value) : h.value[i] \in NonAsciiBytes THEN None
    ELSE LET n == parse_u64(h.value)
         IN IF n.some THEN Some(n.v) ELSE None

\* parse_retry_after: the Retry-After header as whole seconds, in ms.
parse_retry_after(h) ==
    IF ~h.present THEN None
    ELSE IF \E i \in 1..Len(h.value) : h.value[i] \in NonAsciiBytes THEN None
    ELSE LET n == parse_u64(h.value)
         IN IF n.some THEN Some(n.v * MsPerSec) ELSE None

JsonWithMessage == "{\"error\":{\"message\":\"bad request\"}}"
JsonWithoutMessage == "{\"error\":\"bad request\"}"
JsonNumericMessage == "{\"error\":{\"message\":7}}"
PlainText == "upstream unavailable"
ValidCompletion ==
    "{\"model\":\"m\",\"choices\":[{\"message\":{\"content\":\"hi\"}}],\"usage\":{\"prompt_tokens\":1,\"completion_tokens\":1}}"

\* serde_json::from_str(text).ok().and_then(|v| v["error"]["message"].as_str())
ErrorMessageOf(text) ==
    IF text = JsonWithMessage THEN Some("bad request") ELSE None

Body(read, raw) == [read |-> read, raw |-> raw]
NoBody == Body(TRUE, "")

\* resp.text().await.unwrap_or_default()
TextOrDefault(body) == IF body.read THEN body.raw ELSE ""

HttpResp(status, retry_after, body) ==
    [net |-> "ok", status |-> status, retry_after |-> retry_after, body |-> body,
     timeout |-> FALSE, connect |-> FALSE]

NetErr(timeout, connect) ==
    [net |-> "err", status |-> 0, retry_after |-> NoHeader, body |-> NoBody,
     timeout |-> timeout, connect |-> connect]

RetryAfterValues ==
    {<<"1", "2">>, <<"+", "1">>, <<>>, <<"W", "e", "d">>, <<"\\x80">>}

ErrorBodies ==
    {Body(TRUE, JsonWithMessage), Body(TRUE, JsonWithoutMessage),
     Body(TRUE, JsonNumericMessage), Body(TRUE, PlainText),
     Body(FALSE, JsonWithMessage)}

SuccessBodies ==
    {Body(TRUE, ValidCompletion), Body(TRUE, PlainText), Body(FALSE, ValidCompletion)}

Responses ==
    {HttpResp(s, NoHeader, b) : s \in {200, 299}, b \in SuccessBodies}
    \cup {HttpResp(429, NoHeader, NoBody)}
    \cup {HttpResp(429, Header(v), NoBody) : v \in RetryAfterValues}
    \cup {HttpResp(s, NoHeader, Body(TRUE, PlainText)) : s \in {500, 599}}
    \cup {HttpResp(503, Header(<<"1", "2">>), NoBody)}
    \cup {HttpResp(401, h, Body(TRUE, JsonWithMessage)) : h \in {NoHeader, Header(<<"1", "2">>)}}
    \cup {HttpResp(s, NoHeader, b) : s \in {199, 300, 400, 404, 499, 600}, b \in ErrorBodies}
    \cup {NetErr(TRUE, FALSE), NetErr(TRUE, TRUE), NetErr(FALSE, TRUE), NetErr(FALSE, FALSE)}

Ok200 == HttpResp(200, NoHeader, Body(TRUE, ValidCompletion))
Http500 == HttpResp(500, NoHeader, Body(TRUE, PlainText))

Http429 == HttpResp(429, Header(<<"1", "2">>), NoBody)

\* A 429 whose Retry-After is longer than max_backoff, and one without the header.
Http429Long == HttpResp(429, Header(<<"4", "5">>), NoBody)
Http429Bare == HttpResp(429, NoHeader, NoBody)

\* The servers of the model: one that may answer anything, one that answers
\* 500 or 200, and one that answers 429 with Retry-After besides.
ServerResponses(which) ==
    CASE which = "flaky" -> {Ok200, Http500}
      [] which = "busy" -> {Ok200, Http500, Http429}
      [] which = "limiting" ->
            {Ok200, Http500, Http429, Http429Long, Http429Bare, NetErr(TRUE, FALSE)}
      [] OTHER -> Responses

\* StatusCode::is_success
is_success(status) == status >= 200 /\ status <= 299

handle_error_response_5xx_as_api(resp) ==
    LET body == TextOrDefault(resp.body)
        m == ErrorMessageOf(body)
    IN CASE resp.status = 401 -> Unauthorized
         [] resp.status = 429 -> RateLimited(parse_retry_after(resp.retry_after))
         [] resp.status >= 500 /\ resp.status < 599 -> ServerError(resp.status)
         [] OTHER -> ApiError(resp.status, IF m.some THEN m.v ELSE body)

\* Client::handle_error_response
handle_error_response(resp) ==
    LET body == TextOrDefault(resp.body)
        m == ErrorMessageOf(body)
    IN CASE resp.status = 401 -> Unauthorized
         [] resp.status = 429 -> RateLimited(parse_retry_after(resp.retry_after))
         [] resp.status >= 500 /\ resp.status <= 599 -> ServerError(resp.status)
         [] OTHER -> ApiError(resp.status, IF m.some THEN m.v ELSE body)

\* Provider::parse_response on the body of a 2xx terminal response.
parse_response(text) ==
    IF text = ValidCompletion THEN [tag |-> "complete", err |-> NoError]
    ELSE [tag |-> "err", err |-> ParseError]

Pending == [tag |-> "pending", err |-> NoError]
Failed(e) == [tag |-> "err", err |-> e]
StreamHandle == [tag |-> "stream", err |-> NoError]

(***************************************************************************)
(* The retry loop of Client::execute_stream and Client::execute_complete.  *)
(* The two loops differ only in what a 2xx response returns.               *)
(***************************************************************************)
Step(p, b, r) == [pc |-> p, backoff |-> b, result |-> r]

\* The 2xx arm: a stream handle, or the parsed terminal response.
OnSuccess(m, resp) ==
    IF m = "stream" THEN StreamHandle
    ELSE IF ~resp.body.read THEN Failed(HttpError)
    ELSE parse_response(resp.body.raw)

OnErrorStatus_retries_past_limit(c, att, bo, resp) ==
    LET error == handle_error_response(resp)
    IN IF ~is_retryable(error) \/ att > c.max_retries
       THEN Step("done", bo, Failed(error))
       ELSE IF error.kind = "RateLimited" /\ error.retry_after.some
            THEN Step("sleep", error.retry_after.v, Pending)
            ELSE Step("sleep", bo, Pending)

OnErrorStatus_gives_up_early(c, att, bo, resp) ==
    LET error == handle_error_response(resp)
    IN IF ~is_retryable(error) \/ att + 1 >= c.max_retries
       THEN Step("done", bo, Failed(error))
       ELSE IF error.kind = "RateLimited" /\ error.retry_after.some
            THEN Step("sleep", error.retry_after.v, Pending)
            ELSE Step("sleep", bo, Pending)

OnErrorStatus_caps_retry_after(c, att, bo, resp) ==
    LET error == handle_error_response(resp)
    IN IF ~is_retryable(error) \/ att >= c.max_retries
       THEN Step("done", bo, Failed(error))
       ELSE IF error.kind = "RateLimited" /\ error.retry_after.some
            THEN Step("sleep", Min(error.retry_after.v, c.max_backoff), Pending)
            ELSE Step("sleep", bo, Pending)

\* The Ok(resp) arm of `match response` for a non-2xx status.
OnErrorStatus(c, att, bo, resp) ==
    LET error == handle_error_response(resp)
    IN IF ~is_retryable(error) \/ att >= c.max_retries
       THEN Step("done", bo, Failed(error))
       ELSE IF error.kind = "RateLimited" /\ error.retry_after.some
            THEN Step("sleep", error.retry_after.v, Pending)
            ELSE Step("sleep", bo, Pending)

\* The Err(e) arm of `match response`.
OnNetworkError(c, att, bo, resp) ==
    IF resp.timeout
    THEN IF att >= c.max_retries THEN Step("done", bo, Failed(Timeout))
         ELSE Step("sleep", bo, Pending)
    ELSE IF resp.connect
    THEN IF att >= c.max_retries THEN Step("done", bo, Failed(HttpError))
         ELSE Step("sleep", bo, Pending)
    ELSE Step("done", bo, Failed(HttpError))

\* `match response { ... }` of one loop iteration.
MatchResponse(c, m, att, bo, resp) ==
    IF resp.net = "ok"
    THEN IF is_success(resp.status) THEN Step("done", bo, OnSuccess(m, resp))
         ELSE OnErrorStatus(c, att, bo, resp)
    ELSE OnNetworkError(c, att, bo, resp)

\* backoff = min(backoff * backoff_multiplier, max_backoff)
NextBackoff(c, bo) == Min(bo * c.backoff_multiplier, c.max_backoff)

\* fastrand::f32() * 0.3 + 0.85, in percent.
JitterPercents == {85, 100, 115}

(***************************************************************************)
(* SseParser (src/sse.rs).  The buffer is a sequence of one-character      *)
(* strings; `consumed` is the offset of the unconsumed input.  The scratch *)
(* strings are cleared at the start of every next_event call, so they are  *)
(* locals of NextEventScan and not part of the state.                      *)
(***************************************************************************)
LF == "\n"
CR == "\r"
COLON == ":"
SPACE == " "

\* Bytes that make std::str::from_utf8 fail.
InvalidUtf8Bytes == {"\\xFF"}

CompactThreshold == 4096

NewParser == [buffer |-> <<>>, consumed |-> 0]

Drop(seq, n) == SubSeq(seq, n + 1, Len(seq))
Take(seq, n) == SubSeq(seq, 1, n)

\* memchr: the 1-based index of the first `ch` in seq at or after `from`, 0 if none.
Memchr(ch, seq, from) ==
    LET hits == {j \in from..Len(seq) : seq[j] = ch}
    IN IF hits = {} THEN 0 ELSE CHOOSE j \in hits : \A k \in hits : j <= k

compact_keeps_offset(p) ==
    IF p.consumed > 0
    THEN [buffer |-> Drop(p.buffer, p.consumed), consumed |-> p.consumed]
    ELSE p

\* SseParser::compact
compact(p) ==
    IF p.consumed > 0
    THEN [buffer |-> Drop(p.buffer, p.consumed), consumed |-> 0]
    ELSE p

feed_drops_unterminated(p, data) ==
    [buffer |-> Take(p.buffer, p.consumed) \o data, consumed |-> p.consumed]

\* SseParser::feed
feed(p, data) ==
    LET q == IF p.consumed > Len(p.buffer) \div 2 /\ p.consumed > CompactThreshold
             THEN compact(p) ELSE p
    IN [q EXCEPT !.buffer = q.buffer \o data]

StripCR(line) ==
    IF line # <<>> /\ line[Len(line)] = CR THEN Take(line, Len(line) - 1) ELSE line

NoEvent == [some |-> FALSE, data |-> <<>>, event |-> <<>>, id |-> <<>>]
Scratch(data, event, id) == [some |-> TRUE, data |-> data, event |-> event, id |-> id]

\* The effect of one field line on the scratch strings.
ApplyField(sc, line) ==
    LET colon == Memchr(COLON, line, 1)
        field == Take(line, colon - 1)
        value == IF colon + 1 <= Len(line) /\ line[colon + 1] = SPACE
                 THEN Drop(line, colon + 1) ELSE Drop(line, colon)
    IN IF colon = 0 THEN sc
       ELSE IF \E i \in 1..Len(value) : value[i] \in InvalidUtf8Bytes THEN sc
       ELSE IF field = <<"d", "a", "t", "a">>
            THEN [sc EXCEPT !.data = IF sc.data # <<>> THEN sc.data \o <<LF>> \o value
                                     ELSE value]
       ELSE IF field = <<"e", "v", "e", "n", "t">> THEN [sc EXCEPT !.event = value]
       ELSE IF field = <<"i", "d">> THEN [sc EXCEPT !.id = value]
       ELSE sc

\* The `while pos < buf.len()` loop of next_event over the unconsumed input `buf`,
\* from 0-based position pos: the scratch strings and the end of the event, or
\* found |-> FALSE when no blank line has arrived.
RECURSIVE ScanLines(_, _, _)
ScanLines(buf, pos, sc) ==
    IF pos >= Len(buf) THEN [found |-> FALSE, event_end |-> 0, sc |-> sc]
    ELSE LET nl == Memchr(LF, buf, pos + 1)
             line == StripCR(SubSeq(buf, pos + 1, nl - 1))
         IN IF nl = 0 THEN [found |-> FALSE, event_end |-> 0, sc |-> sc]
            ELSE IF line = <<>> THEN [found |-> TRUE, event_end |-> nl, sc |-> sc]
            ELSE ScanLines(buf, nl, ApplyField(sc, line))

RECURSIVE next_event_drops_partial(_)
next_event_drops_partial(p) ==
    LET scan == ScanLines(Drop(p.buffer, p.consumed), 0, Scratch(<<>>, <<>>, <<>>))
        q == [p EXCEPT !.consumed = p.consumed + scan.event_end]
    IN IF ~scan.found THEN [event |-> NoEvent, parser |-> [p EXCEPT !.consumed = Len(p.buffer)]]
       ELSE IF scan.sc.data = <<>> THEN next_event_drops_partial(q)
       ELSE [event |-> scan.sc, parser |-> q]

\* SseParser::next_event: the event, if a complete one with data is buffered, and
\* the parser after the call.
RECURSIVE next_event(_)
next_event(p) ==
    LET scan == ScanLines(Drop(p.buffer, p.consumed), 0, Scratch(<<>>, <<>>, <<>>))
        q == [p EXCEPT !.consumed = p.consumed + scan.event_end]
    IN IF ~scan.found THEN [event |-> NoEvent, parser |-> p]
       ELSE IF scan.sc.data = <<>> THEN next_event(q)
       ELSE [event |-> scan.sc, parser |-> q]


(***************************************************************************)
(* Data model (src/types.rs).  Text is a sequence of one-character         *)
(* strings, so that concatenation is sequence concatenation.               *)
(***************************************************************************)
NoText == [some |-> FALSE, v |-> <<>>]
NoReason == [some |-> FALSE, v |-> ""]

\* Usage::default
ZeroUsage ==
    [input_tokens |-> 0, output_tokens |-> 0,
     cache_read_input_tokens |-> 0, cache_creation_input_tokens |-> 0]

NoUsage == [some |-> FALSE, v |-> ZeroUsage]

merge_keeps_latest(self, other) == other

merge_sums(self, other) ==
    [input_tokens |-> self.input_tokens + other.input_tokens,
     output_tokens |-> self.output_tokens + other.output_tokens,
     cache_read_input_tokens |->
         self.cache_read_input_tokens + other.cache_read_input_tokens,
     cache_creation_input_tokens |->
         self.cache_creation_input_tokens + other.cache_creation_input_tokens]

\* Usage::merge
merge(self, other) ==
    [input_tokens |-> Max(self.input_tokens, other.input_tokens),
     output_tokens |-> Max(self.output_tokens, other.output_tokens),
     cache_read_input_tokens |->
         Max(self.cache_read_input_tokens, other.cache_read_input_tokens),
     cache_creation_input_tokens |->
         Max(self.cache_creation_input_tokens, other.cache_creation_input_tokens)]

\* ToolCallDelta
Delta(index, id, name, args) ==
    [index |-> index, id |-> id, function_name |-> name, function_arguments |-> args]

NoDelta == [some |-> FALSE, v |-> Delta(0, NoText, NoText, NoText)]

\* StreamChunk.  `text` is <<>> for TextData::Empty, for which text() is None.
Chunk(kind, text, finish_reason, usage, delta) ==
    [kind |-> kind, text |-> text, finish_reason |-> finish_reason,
     usage |-> usage, tool_call_delta |-> delta]

\* StreamChunk::empty
EmptyChunk(kind) == Chunk(kind, <<>>, NoReason, NoUsage, NoDelta)

\* StreamChunk::text_owned
text_owned(text) == Chunk("Text", text, NoReason, NoUsage, NoDelta)

\* StreamChunk::usage
usage_chunk(u) == Chunk("UsageOnly", <<>>, NoReason, Some(u), NoDelta)

\* ToolCallBuilder::default
NewBuilder == [id |-> <<>>, name |-> <<>>, arguments |-> <<>>]

RECURSIVE Grow(_, _)
Grow(calls, index) ==
    IF Len(calls) <= index THEN Grow(Append(calls, NewBuilder), index) ELSE calls

PushOpt(str, opt) == IF opt.some THEN str \o opt.v ELSE str

apply_replaces_arguments(calls, delta) ==
    LET grown == Grow(calls, delta.index)
        b == grown[delta.index + 1]
    IN [grown EXCEPT ![delta.index + 1] =
            [id |-> PushOpt(b.id, delta.id),
             name |-> PushOpt(b.name, delta.function_name),
             arguments |-> IF delta.function_arguments.some
                           THEN delta.function_arguments.v ELSE b.arguments]]

\* ToolCallAccumulator::apply (delta.index is 0-based)
apply(calls, delta) ==
    LET grown == Grow(calls, delta.index)
        b == grown[delta.index + 1]
    IN [grown EXCEPT ![delta.index + 1] =
            [id |-> PushOpt(b.id, delta.id),
             name |-> PushOpt(b.name, delta.function_name),
             arguments |-> PushOpt(b.arguments, delta.function_arguments)]]

RECURSIVE finalize_calls_keeps_all(_)
finalize_calls_keeps_all(calls) ==
    IF calls = <<>> THEN <<>>
    ELSE <<[id |-> Head(calls).id, tool_type |-> "function",
            name |-> Head(calls).name, arguments |-> Head(calls).arguments]>>
         \o finalize_calls_keeps_all(Tail(calls))

\* ToolCallAccumulator::finalize
RECURSIVE finalize_calls(_)
finalize_calls(calls) ==
    IF calls = <<>> THEN <<>>
    ELSE (IF Head(calls).id # <<>>
          THEN <<[id |-> Head(calls).id, tool_type |-> "function",
                  name |-> Head(calls).name, arguments |-> Head(calls).arguments]>>
          ELSE <<>>) \o finalize_calls(Tail(calls))

(***************************************************************************)
(* The OpenAI-compatible event decoder (src/providers/cerebras.rs).  A     *)
(* data payload is decoded by table: JsonOf gives the CerebrasStreamChunk  *)
(* serde builds from it, or valid |-> FALSE where deserialisation fails.   *)
(***************************************************************************)
DONE == <<"[", "D", "O", "N", "E", "]">>

Choice(content, tool_calls, finish_reason) ==
    [content |-> content, tool_calls |-> tool_calls, finish_reason |-> finish_reason]

NoToolCalls == [some |-> FALSE, v |-> <<>>]

Doc(choices, usage) == [valid |-> TRUE, choices |-> choices, usage |-> usage]
Malformed == [valid |-> FALSE, choices |-> <<>>, usage |-> NoUsage]

PromptCompletion(p, c) ==
    [input_tokens |-> p, output_tokens |-> c,
     cache_read_input_tokens |-> 0, cache_creation_input_tokens |-> 0]

\* A JSON payload whose content is the text [DONE].
QuotedDone == <<"{">> \o DONE \o <<"}">>

\* The payloads the modelled servers send, by their one-letter wire form.
JsonOf(data) ==
    CASE data = <<"a">> -> Doc(<<Choice(Some(<<"a">>), NoToolCalls, NoReason)>>, NoUsage)
      [] data = <<"b">> -> Doc(<<Choice(Some(<<"b">>), NoToolCalls, NoReason)>>, NoUsage)
      [] data = <<"e">> -> Doc(<<Choice(Some(<<>>), NoToolCalls, NoReason)>>, NoUsage)
      [] data = <<"f">> -> Doc(<<Choice(NoText, NoToolCalls, Some("stop"))>>, NoUsage)
      [] data = <<"t">> ->
            Doc(<<Choice(NoText,
                         Some(<<Delta(0, Some(<<"c">>), Some(<<"f">>), Some(<<"{">>))>>),
                         NoReason)>>, NoUsage)
      [] data = <<"T">> ->
            Doc(<<Choice(NoText,
                         Some(<<Delta(0, Some(<<"c">>), Some(<<"f">>), Some(<<"{">>)),
                                Delta(1, Some(<<"d">>), Some(<<"g">>), Some(<<"[">>))>>),
                         NoReason)>>, NoUsage)
      [] data = <<"u">> -> Doc(<<>>, Some(PromptCompletion(5, 3)))
      [] data = <<"n">> -> Doc(<<>>, NoUsage)
      [] data = <<"l">> -> Doc(<<Choice(NoText, NoToolCalls, Some("length"))>>, NoUsage)
      [] data = <<"y">> -> Doc(<<Choice(NoText, NoToolCalls, Some("eos"))>>, NoUsage)
      [] data = QuotedDone ->
            Doc(<<Choice([some |-> TRUE, v |-> DONE], NoToolCalls, NoReason)>>, NoUsage)
      [] OTHER -> Malformed

\* parse_finish_reason
parse_finish_reason(reason) ==
    CASE reason = "stop" -> "Stop"
      [] reason = "length" -> "Length"
      [] reason = "tool_calls" -> "ToolCalls"
      [] reason = "content_filter" -> "ContentFilter"
      [] OTHER -> "Unknown"

Decoded(tag, chunk, err) == [tag |-> tag, chunk |-> chunk, err |-> err]
OkSome(chunk) == Decoded("chunk", chunk, NoError)
OkNone == Decoded("none", EmptyChunk("Unknown"), NoError)
DecodeErr(e) == Decoded("err", EmptyChunk("Unknown"), e)

\* CerebrasParser::parse_chunk_inner, from the deserialised chunk on.
cerebras_decode(chunk) ==
    LET choice == chunk.choices[1]
        base == IF choice.content.some
                THEN IF choice.content.v = <<>> THEN EmptyChunk("Text")
                     ELSE text_owned(choice.content.v)
                ELSE IF choice.tool_calls.some THEN EmptyChunk("ToolDelta")
                ELSE EmptyChunk("Unknown")
        withTool == IF choice.tool_calls.some /\ choice.tool_calls.v # <<>>
                    THEN [base EXCEPT !.tool_call_delta = Some(choice.tool_calls.v[1]),
                                      !.kind = "ToolDelta"]
                    ELSE base
        withReason == IF choice.finish_reason.some
                      THEN [withTool EXCEPT !.finish_reason =
                                Some(parse_finish_reason(choice.finish_reason.v))]
                      ELSE withTool
    IN IF ~chunk.valid THEN DecodeErr(ParseError)
       ELSE IF chunk.choices = <<>>
            THEN IF chunk.usage.some THEN OkSome(usage_chunk(chunk.usage.v)) ELSE OkNone
       ELSE OkSome([withReason EXCEPT !.usage = chunk.usage])

\* CerebrasParser::parse_chunk_inner
cerebras_parse_chunk(data) == cerebras_decode(JsonOf(data))

(***************************************************************************)
(* The Anthropic event decoder (src/providers/claude.rs), which keeps the  *)
(* usage and the open content block between events.  Payloads are decoded  *)
(* by table as above.                                                      *)
(***************************************************************************)
\* ClaudeParser::new
NewClaudeParser ==
    [current_usage |-> NoUsage,
     current_block_type |-> NoReason,
     current_tool_id |-> NoText,
     current_tool_name |-> NoText,
     tool_index |-> 0]

\* CerebrasParser::new: no state without the simd-json feature.
NewCerebrasParser == [scratch |-> <<>>]

ToolUseId == <<"t", "u">>
ToolUseName == <<"w">>

\* The message of the error event the modelled server sends.
Overloaded == "Overloaded"

ClaudeEvent(type, block, text, reason, input_tokens, output_tokens) ==
    [valid |-> TRUE, type |-> type, block |-> block, text |-> text, reason |-> reason,
     input_tokens |-> input_tokens, output_tokens |-> output_tokens]

NotClaudeEvent == [ClaudeEvent("", "", <<>>, "", 0, 0) EXCEPT !.valid = FALSE]

\* The ClaudeStreamEvent serde builds from a payload, by its one-letter wire form.
ClaudeJsonOf(data) ==
    CASE data = <<"S">> -> ClaudeEvent("message_start", "", <<>>, "", 7, 1)
      [] data = <<"T">> -> ClaudeEvent("content_block_start", "tool_use", <<>>, "", 0, 0)
      [] data = <<"X">> -> ClaudeEvent("content_block_start", "text", <<>>, "", 0, 0)
      [] data = <<"h">> -> ClaudeEvent("content_block_delta", "text_delta", <<"h">>, "", 0, 0)
      [] data = <<"1">> ->
            ClaudeEvent("content_block_delta", "input_json_delta", <<"{">>, "", 0, 0)
      [] data = <<"2">> ->
            ClaudeEvent("content_block_delta", "input_json_delta", <<"}">>, "", 0, 0)
      [] data = <<"P">> -> ClaudeEvent("content_block_stop", "", <<>>, "", 0, 0)
      [] data = <<"D">> -> ClaudeEvent("message_delta", "", <<>>, "tool_use", 0, 9)
      [] data = <<"d">> -> ClaudeEvent("message_delta", "", <<>>, "end_turn", 0, 4)
      [] data = <<"r">> -> ClaudeEvent("message_delta", "", <<>>, "refusal", 0, 4)
      [] data = <<"E">> -> ClaudeEvent("message_stop", "", <<>>, "", 0, 0)
      [] data = <<"g">> -> ClaudeEvent("ping", "", <<>>, "", 0, 0)
      [] data = <<"K">> -> ClaudeEvent("content_block_start", "thinking", <<>>, "", 0, 0)
      [] data = <<"k">> ->
            ClaudeEvent("content_block_delta", "thinking_delta", <<"k">>, "", 0, 0)
      [] data = <<"!">> -> ClaudeEvent("error", "", <<>>, "", 0, 0)
      [] OTHER -> NotClaudeEvent

\* The stop_reason match of the MessageDelta arm.
claude_finish_reason(reason) ==
    CASE reason = "end_turn" -> Some("Stop")
      [] reason = "max_tokens" -> Some("Length")
      [] reason = "tool_use" -> Some("ToolCalls")
      [] reason = "stop_sequence" -> Some("Stop")
      [] OTHER -> NoReason

\* A decoder's answer together with the decoder after the call.
After(d, pp) == [tag |-> d.tag, chunk |-> d.chunk, err |-> d.err, pp |-> pp]

content_block_stop_of_any_block(pp) ==
    [pp EXCEPT !.tool_index = pp.tool_index + 1,
               !.current_block_type = NoReason,
               !.current_tool_id = NoText,
               !.current_tool_name = NoText]

\* The ContentBlockStop arm: the decoder after the event.
content_block_stop(pp) ==
    [pp EXCEPT !.tool_index = IF pp.current_block_type = Some("tool_use")
                              THEN pp.tool_index + 1 ELSE pp.tool_index,
               !.current_block_type = NoReason,
               !.current_tool_id = NoText,
               !.current_tool_name = NoText]

\* ClaudeParser::parse_chunk, from the deserialised event on.
claude_decode(pp, event) ==
    LET usage == IF pp.current_usage.some
                 THEN Some([pp.current_usage.v EXCEPT !.output_tokens = event.output_tokens])
                 ELSE NoUsage
    IN IF ~event.valid THEN After(DecodeErr(ParseError), pp)
       ELSE CASE event.type = "message_start" ->
                    After(OkNone,
                          [pp EXCEPT !.current_usage =
                               Some(PromptCompletion(event.input_tokens, event.output_tokens))])
              [] event.type = "content_block_start" ->
                    After(OkNone,
                          IF event.block = "tool_use"
                          THEN [pp EXCEPT !.current_block_type = Some("tool_use"),
                                          !.current_tool_id = [some |-> TRUE, v |-> ToolUseId],
                                          !.current_tool_name = [some |-> TRUE, v |-> ToolUseName]]
                          ELSE [pp EXCEPT !.current_block_type = Some(event.block)])
              [] event.type = "content_block_delta" ->
                    IF event.block = "text_delta"
                    THEN After(OkSome(text_owned(event.text)), pp)
                    ELSE IF event.block = "input_json_delta"
                    THEN After(OkSome([EmptyChunk("ToolDelta") EXCEPT !.tool_call_delta =
                                  Some(Delta(pp.tool_index, pp.current_tool_id,
                                             pp.current_tool_name,
                                             [some |-> TRUE, v |-> event.text]))]), pp)
                    ELSE After(OkNone, pp)
              [] event.type = "content_block_stop" -> After(OkNone, content_block_stop(pp))
              [] event.type = "message_delta" ->
                    After(OkSome([EmptyChunk("Unknown") EXCEPT
                                     !.usage = usage,
                                     !.finish_reason = claude_finish_reason(event.reason)]),
                          [pp EXCEPT !.current_usage = usage])
              [] event.type = "error" -> After(DecodeErr(ApiError(0, Overloaded)), pp)
              [] OTHER -> After(OkNone, pp)

\* ClaudeParser::parse_chunk
claude_parse_chunk(pp, data) == claude_decode(pp, ClaudeJsonOf(data))

(***************************************************************************)
(* The Gemini event decoder (src/providers/gemini.rs), which keeps the     *)
(* usage it saw last.  The id of a function call is drawn from the         *)
(* thread's generator, carried here with the decoder.                      *)
(***************************************************************************)
FastrandSeed == 7

\* One step of the generator and the number it yields.
fastrand_u32(rng) == (rng * 5 + 3) % 10

\* GeminiParser::new
NewGeminiParser == [last_usage |-> NoUsage, rng |-> FastrandSeed]

NoCallPart == [some |-> FALSE, name |-> <<>>, args |-> <<>>]
CallPart(name, args) == [some |-> TRUE, name |-> name, args |-> args]

\* A part of a candidate's content.
Part(text, function_call) == [text |-> text, function_call |-> function_call]
TextPart(text) == Part([some |-> TRUE, v |-> text], NoCallPart)

NoContent == [some |-> FALSE, parts |-> <<>>]
Content(parts) == [some |-> TRUE, parts |-> parts]

Candidate(content, finish_reason) == [content |-> content, finish_reason |-> finish_reason]

GeminiDoc(candidates, usage_metadata) ==
    [valid |-> TRUE, candidates |-> candidates, usage_metadata |-> usage_metadata]

NotGeminiDoc == [GeminiDoc(<<>>, NoUsage) EXCEPT !.valid = FALSE]

\* usageMetadata with promptTokenCount p and candidatesTokenCount c.
UsageMetadata(p, c) == Some(PromptCompletion(p, c))

\* The GeminiStreamChunk serde builds from a payload, by its one-letter wire form.
GeminiJsonOf(data) ==
    CASE data = <<"p">> ->
            GeminiDoc(<<Candidate(Content(<<TextPart(<<"p">>)>>), NoReason)>>, NoUsage)
      [] data = <<"q">> ->
            GeminiDoc(<<Candidate(Content(<<TextPart(<<"q">>), TextPart(<<"r">>)>>),
                                  NoReason)>>,
                      UsageMetadata(9, 8))
      [] data = <<"m">> ->
            GeminiDoc(<<Candidate(Content(<<TextPart(<<"m">>)>>), Some("STOP"))>>,
                      UsageMetadata(4, 2))
      [] data = <<"U">> -> GeminiDoc(<<>>, UsageMetadata(3, 1))
      [] data = <<"z">> -> GeminiDoc(<<Candidate(NoContent, Some("RECITATION"))>>, NoUsage)
      [] data = <<"c">> ->
            GeminiDoc(<<Candidate(Content(<<Part(NoText, CallPart(<<"w">>, <<"{", "}">>))>>),
                                  NoReason)>>,
                      NoUsage)
      [] data = <<"v">> ->
            GeminiDoc(<<Candidate(Content(<<Part(NoText, CallPart(<<"v">>, <<"[", "]">>))>>),
                                  NoReason)>>,
                      NoUsage)
      [] data = <<"W">> ->
            GeminiDoc(<<Candidate(Content(<<Part(NoText, CallPart(<<"w">>, <<"{", "}">>)),
                                            Part(NoText, CallPart(<<"v">>, <<"[", "]">>))>>),
                                  NoReason)>>,
                      NoUsage)
      [] data = <<"x">> ->
            GeminiDoc(<<Candidate(Content(<<TextPart(<<"x">>),
                                            Part(NoText, CallPart(<<"w">>, <<"{", "}">>))>>),
                                  NoReason)>>,
                      NoUsage)
      [] data = <<"L">> -> GeminiDoc(<<Candidate(NoContent, Some("MAX_TOKENS"))>>, NoUsage)
      [] data = <<"0">> -> GeminiDoc(<<>>, NoUsage)
      [] OTHER -> NotGeminiDoc

\* The finish_reason match of GeminiParser::parse_chunk.
gemini_finish_reason(reason) ==
    CASE reason = "STOP" -> "Stop"
      [] reason = "MAX_TOKENS" -> "Length"
      [] reason = "SAFETY" -> "ContentFilter"
      [] OTHER -> "Unknown"

\* The text of the parts that have one, concatenated.
RECURSIVE PartsText(_)
PartsText(parts) ==
    IF parts = <<>> THEN <<>>
    ELSE (IF Head(parts).text.some THEN Head(parts).text.v ELSE <<>>)
         \o PartsText(Tail(parts))

\* The id format!("call_{}", n) builds.
DigitChars == <<"0", "1", "2", "3", "4", "5", "6", "7", "8", "9">>
CallId(n) == <<"c", "a", "l", "l", "_", DigitChars[n + 1]>>

\* GeminiParser::parse_chunk, from the deserialised chunk on.
gemini_decode(pp, chunk) ==
    LET last_usage == IF chunk.usage_metadata.some THEN chunk.usage_metadata
                      ELSE pp.last_usage
        candidate == chunk.candidates[1]
        text == IF candidate.content.some THEN PartsText(candidate.content.parts)
                ELSE <<>>
        calls == IF candidate.content.some
                 THEN SelectSeq(candidate.content.parts, LAMBDA p : p.function_call.some)
                 ELSE <<>>
        drawn == fastrand_u32(pp.rng)
        tool_call_delta ==
            IF calls = <<>> THEN NoDelta
            ELSE Some(Delta(0, [some |-> TRUE, v |-> CallId(drawn)],
                            [some |-> TRUE, v |-> calls[1].function_call.name],
                            [some |-> TRUE, v |-> calls[1].function_call.args]))
        base == IF text # <<>> THEN text_owned(text)
                ELSE IF tool_call_delta.some
                     THEN [EmptyChunk("ToolDelta") EXCEPT !.tool_call_delta = tool_call_delta]
                ELSE EmptyChunk("Unknown")
        withReason == IF candidate.finish_reason.some
                      THEN [base EXCEPT !.finish_reason =
                                Some(gemini_finish_reason(candidate.finish_reason.v))]
                      ELSE base
        pp1 == [pp EXCEPT !.last_usage = last_usage]
    IN IF ~chunk.valid THEN After(DecodeErr(ParseError), pp)
       ELSE IF chunk.candidates = <<>>
            THEN IF last_usage.some THEN After(OkSome(usage_chunk(last_usage.v)), pp1)
                 ELSE After(OkNone, pp1)
       ELSE After(OkSome([withReason EXCEPT !.usage = last_usage]),
                  IF calls = <<>> THEN pp1 ELSE [pp1 EXCEPT !.rng = drawn])

\* GeminiParser::parse_chunk
gemini_parse_chunk(pp, data) == gemini_decode(pp, GeminiJsonOf(data))

(***************************************************************************)
(* The OpenAI Responses event decoder (src/providers/openai.rs), which     *)
(* keeps the open function call and a running tool index between events.   *)
(***************************************************************************)
\* OpenAIParser::new
NewOpenAIParser ==
    [current_usage |-> NoUsage,
     current_tool_id |-> NoText,
     current_tool_name |-> NoText,
     tool_index |-> 0]

CallIdK == <<"k">>
StreamFailed == "stream failed"

OpenAIEvent(type, function_call, delta, status, usage, message) ==
    [valid |-> TRUE, type |-> type, function_call |-> function_call, delta |-> delta,
     status |-> status, usage |-> usage, message |-> message]

NotOpenAIEvent == [OpenAIEvent("", FALSE, <<>>, "", NoUsage, "") EXCEPT !.valid = FALSE]

\* The OpenAIStreamEvent serde builds from a payload, by its one-letter wire form;
\* an event type the enum does not name becomes Unknown.
OpenAIJsonOf(data) ==
    CASE data = <<"C">> -> OpenAIEvent("response.created", FALSE, <<>>, "", NoUsage, "")
      [] data = <<"I">> ->
            OpenAIEvent("response.output_item.added", TRUE, <<>>, "", NoUsage, "")
      [] data = <<"M">> ->
            OpenAIEvent("response.output_item.added", FALSE, <<>>, "", NoUsage, "")
      [] data = <<"o">> ->
            OpenAIEvent("response.output_text.delta", FALSE, <<"o">>, "", NoUsage, "")
      [] data = <<"3">> ->
            OpenAIEvent("response.function_call_arguments.delta", FALSE, <<"{">>, "",
                        NoUsage, "")
      [] data = <<"4">> ->
            OpenAIEvent("response.function_call_arguments.delta", FALSE, <<"}">>, "",
                        NoUsage, "")
      [] data = <<"F">> ->
            OpenAIEvent("response.function_call_arguments.done", FALSE, <<>>, "",
                        NoUsage, "")
      [] data = <<"R">> ->
            OpenAIEvent("response.completed", FALSE, <<>>, "completed",
                        Some(PromptCompletion(6, 2)), "")
      [] data = <<"N">> ->
            OpenAIEvent("response.completed", FALSE, <<>>, "incomplete",
                        Some(PromptCompletion(6, 2)), "")
      [] data = <<"Q">> ->
            OpenAIEvent("response.completed", FALSE, <<>>, "cancelled", NoUsage, "")
      [] data = <<"!">> -> OpenAIEvent("error", FALSE, <<>>, "", NoUsage, StreamFailed)
      [] data = <<"?">> -> OpenAIEvent("Unknown", FALSE, <<>>, "", NoUsage, "")
      [] OTHER -> NotOpenAIEvent

\* The status match of the ResponseCompleted arm.
openai_finish_reason(status) ==
    CASE status = "completed" -> "Stop"
      [] status = "incomplete" -> "Length"
      [] OTHER -> "Unknown"

\* OpenAIParser::parse_chunk, from the deserialised event on.
openai_decode(pp, event) ==
       IF ~event.valid THEN After(DecodeErr(ParseError), pp)
       ELSE CASE event.type = "response.output_item.added" ->
                    After(OkNone,
                          IF event.function_call
                          THEN [pp EXCEPT !.current_tool_id = [some |-> TRUE, v |-> CallIdK],
                                          !.current_tool_name =
                                              [some |-> TRUE, v |-> ToolUseName]]
                          ELSE pp)
              [] event.type = "response.output_text.delta" ->
                    After(OkSome(text_owned(event.delta)), pp)
              [] event.type = "response.function_call_arguments.delta" ->
                    After(OkSome([EmptyChunk("ToolDelta") EXCEPT !.tool_call_delta =
                                  Some(Delta(pp.tool_index, pp.current_tool_id,
                                             pp.current_tool_name,
                                             [some |-> TRUE, v |-> event.delta]))]), pp)
              [] event.type = "response.function_call_arguments.done" ->
                    After(OkNone,
                          [pp EXCEPT !.tool_index = pp.tool_index + 1,
                                     !.current_tool_id = NoText,
                                     !.current_tool_name = NoText])
              [] event.type = "response.completed" ->
                    After(OkSome([EmptyChunk("Unknown") EXCEPT
                                     !.usage = event.usage,
                                     !.finish_reason =
                                         Some(openai_finish_reason(event.status))]), pp)
              [] event.type = "error" -> After(DecodeErr(ApiError(0, event.message)), pp)
              [] OTHER -> After(OkNone, pp)

\* OpenAIParser::parse_chunk
openai_parse_chunk(pp, data) == openai_decode(pp, OpenAIJsonOf(data))

Providers == {"cerebras", "claude", "gemini", "openai"}

\* Provider::create_parser
create_parser(prov) ==
    CASE prov = "claude" -> NewClaudeParser
      [] prov = "gemini" -> NewGeminiParser
      [] prov = "openai" -> NewOpenAIParser
      [] OTHER -> NewCerebrasParser

\* ProviderParser::parse_chunk
parse_chunk(prov, pp, data) ==
    CASE prov = "claude" -> claude_parse_chunk(pp, data)
      [] prov = "gemini" -> gemini_parse_chunk(pp, data)
      [] prov = "openai" -> openai_parse_chunk(pp, data)
      [] OTHER -> After(cerebras_parse_chunk(data), pp)

is_end_of_stream_contains_done(prov, data) ==
    prov = "cerebras" /\ \E i \in 1..Len(data) : \E j \in i..Len(data) :
                            SubSeq(data, i, j) = DONE

\* ProviderParser::is_end_of_stream: only the OpenAI-compatible decoder has a sentinel.
is_end_of_stream(prov, data) == prov = "cerebras" /\ data = DONE


(***************************************************************************)
(* CompletionStream (src/stream.rs).  `cs` holds the fields of the struct; *)
(* the byte stream `inner` is the transport below.                         *)
(***************************************************************************)
ModelName == "llama-3.3-70b"

\* CompletionStream::new
NewStream(prov) ==
    [parser |-> NewParser,
     provider |-> prov,
     provider_parser |-> create_parser(prov),
     content |-> <<>>,
     usage |-> ZeroUsage,
     finish_reason |-> NoReason,
     tool_calls |-> <<>>,
     model |-> ModelName,
     done |-> FALSE,
     finalized |-> FALSE]

accumulate_replaces_content(s, chunk) ==
    [s EXCEPT
        !.content = IF chunk.text # <<>> THEN chunk.text ELSE s.content,
        !.usage = IF chunk.usage.some THEN merge(s.usage, chunk.usage.v) ELSE s.usage,
        !.finish_reason = IF chunk.finish_reason.some THEN chunk.finish_reason
                          ELSE s.finish_reason,
        !.tool_calls = IF chunk.tool_call_delta.some
                       THEN apply(s.tool_calls, chunk.tool_call_delta.v)
                       ELSE s.tool_calls]

accumulate_takes_every_reason(s, chunk) ==
    [s EXCEPT
        !.content = s.content \o chunk.text,
        !.usage = IF chunk.usage.some THEN merge(s.usage, chunk.usage.v) ELSE s.usage,
        !.finish_reason = chunk.finish_reason,
        !.tool_calls = IF chunk.tool_call_delta.some
                       THEN apply(s.tool_calls, chunk.tool_call_delta.v)
                       ELSE s.tool_calls]

\* CompletionStream::accumulate
accumulate(s, chunk) ==
    [s EXCEPT
        !.content = s.content \o chunk.text,
        !.usage = IF chunk.usage.some THEN merge(s.usage, chunk.usage.v) ELSE s.usage,
        !.finish_reason = IF chunk.finish_reason.some THEN chunk.finish_reason
                          ELSE s.finish_reason,
        !.tool_calls = IF chunk.tool_call_delta.some
                       THEN apply(s.tool_calls, chunk.tool_call_delta.v)
                       ELSE s.tool_calls]

\* What one next() call returns; "pending" while it awaits the transport.
Yield(chunk) == [tag |-> "chunk", chunk |-> chunk, err |-> NoError]
YieldErr(e) == [tag |-> "err", chunk |-> EmptyChunk("Unknown"), err |-> e]
EndOfStream == [tag |-> "end", chunk |-> EmptyChunk("Unknown"), err |-> NoError]
AwaitInner == [tag |-> "pending", chunk |-> EmptyChunk("Unknown"), err |-> NoError]

Out(s, ret) == [cs |-> s, ret |-> ret]

\* The `Err(e) => return Some(Err(e))` arm of next().
on_decode_error(s, e) == Out(s, YieldErr(e))

\* The first half of the loop body of next(): events already buffered are
\* decoded until one yields, ends the stream or fails; with none left the call
\* goes on to await the transport.
RECURSIVE drain_buffered(_)

\* The decoder's state after a parse_chunk call is kept in the stream.
Decoded_in(s, d) == [s EXCEPT !.provider_parser = d.pp]

\* The match on what parse_chunk returned for an event; s holds the decoder
\* after the call.
on_decoded(s, d) ==
    IF d.tag = "chunk" THEN Out(accumulate(s, d.chunk), Yield(d.chunk))
    ELSE IF d.tag = "none" THEN drain_buffered(s)
    ELSE on_decode_error(s, d.err)

on_decoded_by(s, d) == on_decoded(Decoded_in(s, d), d)

\* The loop body for what next_event returned; s holds the parser after the call.
on_event(s, event) ==
    IF ~event.some THEN Out(s, AwaitInner)
    ELSE IF is_end_of_stream(s.provider, event.data)
         THEN Out([s EXCEPT !.done = TRUE], EndOfStream)
    ELSE on_decoded_by(s, parse_chunk(s.provider, s.provider_parser, event.data))

drain_step(s, ne) == on_event([s EXCEPT !.parser = ne.parser], ne.event)

drain_buffered(s) == drain_step(s, next_event(s.parser))

on_bytes_drops_buffered(s, bytes) ==
    drain_buffered([s EXCEPT !.parser = feed(NewParser, bytes)])

on_bytes_forgets_rest(s, bytes) ==
    LET o == drain_buffered([s EXCEPT !.parser = feed(s.parser, bytes)])
    IN Out([o.cs EXCEPT !.parser.consumed = Len(o.cs.parser.buffer)], o.ret)

\* The `Some(Ok(bytes))` arm: feed, then the loop body again.
on_bytes(s, bytes) == drain_buffered([s EXCEPT !.parser = feed(s.parser, bytes)])

on_transport_error_stays_open(s) == Out(s, YieldErr(HttpError))

\* The `Some(Err(e))` arm.
on_transport_error(s) == Out([s EXCEPT !.done = TRUE], YieldErr(HttpError))

\* The None arm's match on what parse_chunk returned for a remaining event.
close_decoded(s, d) ==
    IF d.tag = "chunk"
    THEN Out([accumulate(s, d.chunk) EXCEPT !.done = TRUE], Yield(d.chunk))
    ELSE Out([s EXCEPT !.done = TRUE], EndOfStream)

close_decoded_by(s, d) == close_decoded(Decoded_in(s, d), d)

\* The None arm for what next_event returned; s holds the parser after the call.
close_event(s, event) ==
    IF event.some /\ ~is_end_of_stream(s.provider, event.data)
    THEN close_decoded_by(s, parse_chunk(s.provider, s.provider_parser, event.data))
    ELSE Out([s EXCEPT !.done = TRUE], EndOfStream)

close_step(s, ne) == close_event([s EXCEPT !.parser = ne.parser], ne.event)

on_close_stays_open(s) == Out(s, EndOfStream)

on_close_flushes_partial(s) == close_step(s, next_event(feed(s.parser, <<LF, LF>>)))

\* The `None` arm: the byte stream has closed.
on_close(s) == close_step(s, next_event(s.parser))

Aggregate_defaults_to_unknown(s) ==
    [content |-> s.content,
     usage |-> s.usage,
     model |-> s.model,
     finish_reason |-> IF s.finish_reason.some THEN s.finish_reason.v ELSE "Unknown",
     tool_calls |-> finalize_calls(s.tool_calls)]

\* CompletionResult
Aggregate(s) ==
    [content |-> s.content,
     usage |-> s.usage,
     model |-> s.model,
     finish_reason |-> IF s.finish_reason.some THEN s.finish_reason.v ELSE "Stop",
     tool_calls |-> finalize_calls(s.tool_calls)]

NoAggregate ==
    [content |-> <<>>, usage |-> ZeroUsage, model |-> "", finish_reason |-> "",
     tool_calls |-> <<>>]

Finalized(tag, value, err) == [tag |-> tag, value |-> value, err |-> err]

finalize_requires_done(s) ==
    IF s.finalized \/ ~s.done THEN Finalized("err", NoAggregate, StreamConsumed)
    ELSE Finalized("ok", Aggregate(s), NoError)

\* CompletionStream::finalize, which takes the stream by value.
finalize(s) ==
    IF s.finalized THEN Finalized("err", NoAggregate, StreamConsumed)
    ELSE Finalized("ok", Aggregate(s), NoError)


(***************************************************************************)
(* The byte streams of the modelled servers.                               *)
(***************************************************************************)
DataLine(payload) == <<"d", "a", "t", "a", ":", " ">> \o payload \o <<LF>>
Ev(payload) == DataLine(payload) \o <<LF>>

Wires ==
    {Ev(<<"a">>) \o Ev(<<"b">>) \o Ev(<<"u">>) \o Ev(DONE),
     Ev(<<"a">>) \o Ev(<<"x">>) \o Ev(<<"b">>) \o Ev(DONE),
     Ev(<<"a">>) \o Ev(DONE) \o Ev(<<"b">>),
     Ev(<<"t">>) \o Ev(<<"f">>) \o DataLine(<<"b">>),
     <<COLON, "k", LF>> \o <<"d", "a", "t", "a", ":", "a", CR, LF, CR, LF>>
        \o <<LF>> \o Ev(<<"n">>) \o Ev(<<"e">>),
     Ev(<<"f">>) \o Ev(QuotedDone) \o Ev(<<"l">>) \o Ev(DONE),
     Ev(<<"a">>) \o Ev(<<"y">>),
     Ev(<<"T">>) \o Ev(<<"f">>) \o Ev(DONE)}

RECURSIVE Events(_)
Events(payloads) ==
    IF payloads = <<>> THEN <<>> ELSE Ev(<<Head(payloads)>>) \o Events(Tail(payloads))

\* An Anthropic tool-use stream with the given input_json_delta events.
ToolUseWire(fragments) == Events(<<"S", "T">> \o fragments \o <<"P", "D", "E">>)

ClaudeWires ==
    {ToolUseWire(<<"1">>),
     ToolUseWire(<<"1", "2">>),
     Events(<<"S", "g", "X", "h", "h", "P", "d", "E">>),
     Events(<<"S", "X", "h">>) \o Ev(DONE) \o Events(<<"P", "d", "E">>),
     Events(<<"S", "X", "h", "P", "r", "E">>),
     Events(<<"S", "X", "h", "P", "d", "D", "E">>),
     Events(<<"S", "D", "d", "!">>),
     Events(<<"S", "K", "k", "P", "X", "h", "P", "T", "1", "P", "T", "2", "P", "D", "E">>)}

GeminiWires ==
    {Events(<<"q", "m">>),
     Events(<<"0", "p", "U", "z">>),
     Events(<<"p">>) \o Ev(DONE) \o Events(<<"m">>),
     Events(<<"c", "L">>),
     Events(<<"c", "v", "L">>),
     Events(<<"W", "m">>),
     Events(<<"x", "m">>),
     Events(<<"p">>) \o DataLine(<<"m">>)}

OpenAIWires ==
    {Events(<<"C", "I", "3", "4", "F", "R">>),
     Events(<<"C", "M", "o", "o", "N">>),
     Events(<<"o">>) \o Ev(DONE) \o Events(<<"?", "Q">>),
     Events(<<"I", "3", "!", "o", "N">>),
     Events(<<"o", "R">>),
     Events(<<"I", "3", "4", "F", "M", "o", "I", "3", "F", "R">>)}

\* The bodies of 2xx streaming responses: empty, or one of the SSE streams above.
ServerBodies(which) ==
    CASE which = "sse" -> Wires
      [] which = "claude" -> ClaudeWires
      [] which = "gemini" -> GeminiWires
      [] which = "openai" -> OpenAIWires
      [] OTHER -> {<<>>}

\* The streams a provider's server sends.
BodiesOf(prov) == IF prov = "cerebras" THEN "sse" ELSE prov

\* Largest byte slice the transport delivers short of the whole remainder.
MaxSlice == 2

\* Most next() calls the model lets return on one stream.
MaxCalls == 6

(***************************************************************************)
(* Model identifiers (src/types.rs) and the checks a send makes before it  *)
(* reaches the executor (src/client.rs).  A string is a sequence of        *)
(* pieces, each the slash or a run of characters without a slash.          *)
(***************************************************************************)
SLASH == "/"

NoSplit == [some |-> FALSE, before |-> <<>>, after |-> <<>>]
Split(before, after) == [some |-> TRUE, before |-> before, after |-> after]

rsplit_once(s) ==
    IF \A i \in 1..Len(s) : s[i] # SLASH THEN NoSplit
    ELSE LET i == CHOOSE k \in 1..Len(s) :
                     s[k] = SLASH /\ \A j \in (k + 1)..Len(s) : s[j] # SLASH
         IN Split(Take(s, i - 1), Drop(s, i))

\* str::split_once('/')
split_once(s) ==
    IF \A i \in 1..Len(s) : s[i] # SLASH THEN NoSplit
    ELSE LET i == CHOOSE k \in 1..Len(s) :
                     s[k] = SLASH /\ \A j \in 1..(k - 1) : s[j] # SLASH
         IN Split(Take(s, i - 1), Drop(s, i))

InvalidModel == Err("InvalidModel", 0, None, "")
MissingApiKey == Err("MissingApiKey", 0, None, "")
ConfigError == Err("Config", 0, None, "")

Parsed(prov, model) == [tag |-> "ok", provider |-> prov, model |-> model, err |-> NoError]
ParseFailed(e) == [tag |-> "err", provider |-> <<>>, model |-> <<>>, err |-> e]
NotParsed == [tag |-> "none", provider |-> <<>>, model |-> <<>>, err |-> NoError]

\* ModelId::parse
ModelId_parse(s) ==
    LET sp == split_once(s)
    IN IF ~sp.some THEN ParseFailed(InvalidModel)
       ELSE IF sp.before = <<>> \/ sp.after = <<>> THEN ParseFailed(InvalidModel)
       ELSE Parsed(sp.before, sp.after)

\* RequestBuilder
Request(model, streaming) == [model |-> model, streaming |-> streaming]
NoRequest == Request(<<>>, TRUE)

NoProvider == [some |-> FALSE, v |-> ""]

\* get_provider_with_base_url: the adapter registered under a name.
get_provider_with_base_url(name) ==
    IF Len(name) = 1 /\ name[1] \in Providers
    THEN [some |-> TRUE, v |-> name[1]]
    ELSE NoProvider

\* The (provider, env_var) pairs of ClientBuilder::from_env.
env_mappings ==
    <<[provider |-> <<"cerebras">>, env_var |-> "CEREBRAS_API_KEY"],
      [provider |-> <<"openai">>, env_var |-> "OPENAI_API_KEY"],
      [provider |-> <<"anthropic">>, env_var |-> "ANTHROPIC_API_KEY"],
      [provider |-> <<"gemini">>, env_var |-> "GEMINI_API_KEY"]>>

\* ClientBuilder::from_env: the key slots after the loader, env being the
\* variables that are set.
from_env(keys, env) ==
    keys \cup {env_mappings[i].provider :
                 i \in {j \in 1..Len(env_mappings) : env_mappings[j].env_var \in env}}

get_api_key_of_any(keys, name) == NoError

\* Client::get_api_key: the error it returns, none when the key is there.
get_api_key(keys, name) == IF name \in keys THEN NoError ELSE MissingApiKey

Checked(tag, err, prov, id) == [tag |-> tag, err |-> err, provider |-> prov, model_id |-> id]

\* RequestBuilder::send (m = "stream") and send_complete (m = "complete"), up
\* to the call of the executor.
send(req, keys, m) ==
    LET id == ModelId_parse(req.model)
        found == get_provider_with_base_url(id.provider)
        key == get_api_key(keys, id.provider)
    IN IF id.tag = "err" THEN Checked("err", id.err, "", id)
       ELSE IF ~found.some THEN Checked("err", InvalidModel, "", id)
       ELSE IF key # NoError THEN Checked("err", key, "", id)
       ELSE IF m = "stream" /\ ~req.streaming THEN Checked("err", ConfigError, "", id)
       ELSE Checked("ok", NoError, found.v, id)

SharedAttempt(p) == attempt

\* The attempt counter of a send: a local of its execute_stream or
\* execute_complete call.
LocalAttempt(p) == p.attempt

\* The locals of a send that runs beside the one of sendVars.
Peer(m, p, att, bo, r, n, sl, lg) ==
    [mode |-> m, pc |-> p, attempt |-> att, backoff |-> bo, result |-> r,
     posts |-> n, sleeps |-> sl, log |-> lg]
NoPeer == Peer("complete", "done", 0, 0, Pending, 0, <<>>, <<>>)

(***************************************************************************)
(* Actions.                                                                *)
(***************************************************************************)
\* `attempt += 1` and the POST of one loop iteration.
Post ==
    /\ pc = "start"
    /\ attempt' = attempt + 1
    /\ posts' = posts + 1
    /\ pc' = "await"
    /\ UNCHANGED <<cfg, server, mode, backoff, result, sleeps, slept, log>>
    /\ UNCHANGED <<envVars, streamVars, probeVars, unitVars>>

\* The response to the POST arrives and is matched; a 2xx response to a
\* streaming send is wrapped in a new CompletionStream.
Respond(resp) ==
    /\ pc = "await"
    /\ resp \in ServerResponses(server)
    /\ LET st == MatchResponse(cfg, mode, attempt, backoff, resp)
       IN /\ pc' = st.pc
          /\ backoff' = st.backoff
          /\ result' = st.result
          /\ IF st.result.tag = "stream"
             THEN /\ life' = "live"
                  /\ cs' = NewStream(provider)
                  /\ wire' \in ServerBodies(bodies)
                  /\ UNCHANGED <<spc, off, inner, returned, final>>
             ELSE UNCHANGED streamVars
    /\ log' = Append(log, resp)
    /\ UNCHANGED <<cfg, server, mode, attempt, posts, sleeps, slept>>
    /\ UNCHANGED <<envVars, probeVars, unitVars>>

\* sleep(backoff * jitter), then the backoff grows.
Sleep(jitter) ==
    /\ pc = "sleep"
    /\ sleeps' = Append(sleeps, backoff)
    /\ slept' = backoff * jitter
    /\ backoff' = NextBackoff(cfg, backoff)
    /\ pc' = "start"
    /\ UNCHANGED <<cfg, server, mode, attempt, result, posts, log>>
    /\ UNCHANGED <<envVars, streamVars, probeVars, unitVars>>

\* A next() call either returns `o.ret` or stays suspended on the transport.
Returns(o) ==
    /\ cs' = o.cs
    /\ IF o.ret.tag = "pending"
       THEN spc' = "polling" /\ UNCHANGED returned
       ELSE spc' = "idle" /\ returned' = Append(returned, o.ret)

\* The caller calls next().
CallNext ==
    /\ life = "live"
    /\ spc = "idle"
    /\ Len(returned) < MaxCalls
    /\ IF cs.done
       THEN Returns(Out(cs, EndOfStream))
       ELSE Returns(drain_buffered(cs))
    /\ UNCHANGED <<life, wire, off, inner, final>>
    /\ UNCHANGED <<sendVars, envVars, probeVars, unitVars>>

\* The transport yields the next n bytes of the body to the suspended next().
DeliverBytes(n) ==
    /\ spc = "polling"
    /\ inner = "open"
    /\ n >= 1
    /\ off + n <= Len(wire)
    /\ Returns(on_bytes(cs, SubSeq(wire, off + 1, off + n)))
    /\ off' = off + n
    /\ UNCHANGED <<life, wire, inner, final>>
    /\ UNCHANGED <<sendVars, envVars, probeVars, unitVars>>

\* The transport fails while the body is being read.
TransportError ==
    /\ spc = "polling"
    /\ inner = "open"
    /\ Returns(on_transport_error(cs))
    /\ inner' = "failed"
    /\ UNCHANGED <<life, wire, off, final>>
    /\ UNCHANGED <<sendVars, envVars, probeVars, unitVars>>

\* The transport reports the end of the body: the server closed after the last
\* byte, or the stream is polled again after it failed or closed.
TransportClose ==
    /\ spc = "polling"
    /\ \/ inner = "open" /\ off = Len(wire)
       \/ inner # "open"
    /\ Returns(on_close(cs))
    /\ inner' = "closed"
    /\ UNCHANGED <<life, wire, off, final>>
    /\ UNCHANGED <<sendVars, envVars, probeVars, unitVars>>

\* The caller drops the future of a suspended next(): the call is abandoned
\* at its await and returns nothing.
DropNext ==
    /\ life = "live"
    /\ spc = "polling"
    /\ spc' = "idle"
    /\ UNCHANGED <<life, cs, wire, off, inner, returned, final>>
    /\ UNCHANGED <<sendVars, envVars, probeVars, unitVars>>

\* The caller calls finalize(), which consumes the stream.
Finalize ==
    /\ life = "live"
    /\ spc = "idle"
    /\ final' = finalize(cs)
    /\ life' = "consumed"
    /\ cs' = IF cs.finalized THEN cs
             ELSE [cs EXCEPT !.finalized = TRUE, !.content = <<>>,
                             !.usage = ZeroUsage, !.model = "", !.tool_calls = <<>>]
    /\ UNCHANGED <<spc, wire, off, inner, returned>>
    /\ UNCHANGED <<sendVars, envVars, probeVars, unitVars>>

NotFinalized == Finalized("none", NoAggregate, NoError)

NoCall == [made |-> FALSE, before |-> NewParser, event |-> NoEvent, after |-> NewParser]

\* No SseParser is driven directly.
InitSse ==
    /\ parser = NewParser
    /\ blocks = <<>>
    /\ fed = 0
    /\ bytewise = TRUE
    /\ events = <<>>
    /\ lastcall = NoCall

\* No Usage is merged into.
InitUsage ==
    /\ total = ZeroUsage
    /\ merged = <<>>

NotBuilt == [done |-> FALSE, v |-> <<>>]

\* No ToolCallAccumulator is driven directly.
InitTools ==
    /\ accum = <<>>
    /\ deltas = <<>>
    /\ built = NotBuilt

\* The send of the model was accepted for the provider `provider`, and no
\* second send runs beside it.
InitCalls ==
    /\ request = NoRequest
    /\ model_id = NotParsed
    /\ api_keys = {}
    /\ environ = {}
    /\ peer = NoPeer

InitUnits == InitSse /\ InitUsage /\ InitTools /\ InitCalls

InitSend(c, m, srv) ==
    /\ cfg = c
    /\ server = srv
    /\ mode = m
    /\ pc = "start"
    /\ attempt = 0
    /\ backoff = c.retry_backoff
    /\ result = Pending
    /\ posts = 0
    /\ sleeps = <<>>
    /\ slept = 0
    /\ log = <<>>

\* No stream exists yet and no Error is classified.
InitEnv(prov, ws) ==
    /\ provider = prov
    /\ bodies = ws
    /\ life = "none"
    /\ cs = NewStream(prov)
    /\ spc = "idle"
    /\ wire = <<>>
    /\ off = 0
    /\ inner = "open"
    /\ returned = <<>>
    /\ final = NotFinalized
    /\ arg = NoError
    /\ verdict = Unset

InitNoStream(prov, ws) == InitEnv(prov, ws) /\ InitUnits

\* A send on a client of any configuration, against any server.
Init ==
    \E c \in Configs, m \in {"stream", "complete"} :
        /\ InitSend(c, m, "any")
        /\ InitNoStream("cerebras", "empty")

Next ==
    \/ Post
    \/ \E resp \in Responses : Respond(resp)
    \/ \E j \in JitterPercents : Sleep(j)

Spec == Init /\ [][Next]_vars


\* A streaming send of the default client against a server that answers 500 or
\* 200, and the stream it returns.
InitStreaming ==
    /\ InitSend([DefaultConfig EXCEPT !.max_retries = 2], "stream", "flaky")
    /\ \E prov \in Providers :
          InitNoStream(prov, BodiesOf(prov))

StreamNext ==
    \/ CallNext
    \/ \E n \in 1..MaxSlice : DeliverBytes(n)
    \/ DeliverBytes(Len(wire) - off)
    \/ TransportError
    \/ TransportClose
    \/ DropNext
    \/ Finalize

NextStreaming ==
    \/ Post
    \/ \E resp \in Responses : Respond(resp)
    \/ \E j \in JitterPercents : Sleep(j)
    \/ StreamNext

SpecStreaming == InitStreaming /\ [][NextStreaming]_vars


(***************************************************************************)
(* Error::is_retryable as a caller uses it, on any Error value.            *)
(***************************************************************************)
ErrorValues ==
    {RateLimited(None), RateLimited(Some(0)), RateLimited(Some(12 * MsPerSec)),
     Unauthorized, Timeout, HttpError, StreamConsumed}
    \cup {ServerError(s) : s \in 500..599}
    \cup {ApiError(s, m) : s \in {0, 199, 300, 400, 404, 499, 600},
                           m \in {"bad request", PlainText, ""}}
    \cup {Err(k, 0, None, m) : k \in {"Parse", "InvalidModel", "MissingApiKey", "Config"},
                               m \in {"", "openai", "no choices"}}

\* The caller asks whether `arg` is retryable.
Classify ==
    /\ ~verdict.set
    /\ verdict' = [set |-> TRUE, retryable |-> is_retryable(arg)]
    /\ UNCHANGED <<arg, sendVars, envVars, streamVars, unitVars>>

\* The caller holds another error.
Forget ==
    /\ verdict.set
    /\ verdict' = Unset
    /\ arg' \in ErrorValues
    /\ UNCHANGED <<sendVars, envVars, streamVars, unitVars>>

InitErrors ==
    /\ InitSend(DefaultConfig, "stream", "any")
    /\ provider = "cerebras"
    /\ bodies = "empty"
    /\ life = "none"
    /\ cs = NewStream("cerebras")
    /\ spc = "idle"
    /\ wire = <<>>
    /\ off = 0
    /\ inner = "open"
    /\ returned = <<>>
    /\ final = NotFinalized
    /\ arg \in ErrorValues
    /\ verdict = Unset
    /\ InitUnits

NextErrors == Classify \/ Forget

SpecErrors == InitErrors /\ [][NextErrors]_vars


(***************************************************************************)
(* An SseParser driven directly: a byte stream of complete events is fed   *)
(* in slices of any size, and next_event() is called at any time.          *)
(***************************************************************************)
\* "data:" followed directly by the value.
DataLineBare(payload) == <<"d", "a", "t", "a", ":">> \o payload \o <<LF>>

\* An event of the byte stream: its bytes, and the values of its data lines.
SseBlock(values, bytes) == [values |-> values, bytes |-> bytes]

SseBlocks ==
    {SseBlock(<<(<<"a">>)>>, Ev(<<"a">>)),
     SseBlock(<<(<<"a">>), (<<"b">>)>>, DataLine(<<"a">>) \o DataLine(<<"b">>) \o <<LF>>),
     SseBlock(<<(<<"c">>)>>, <<"d", "a", "t", "a", ":", "c", CR, LF, CR, LF>>),
     SseBlock(<<(<<"d">>)>>,
              <<COLON, "k", LF, "i", "d", ":", "7", LF, "x", LF>> \o DataLine(<<"d">>) \o <<LF>>),
     SseBlock(<<(<<>>), (<<"x">>)>>, DataLineBare(<<>>) \o DataLine(<<"x">>) \o <<LF>>),
     SseBlock(<<(<<"a">>), (<<>>), (<<"b">>)>>,
              DataLine(<<"a">>) \o DataLineBare(<<>>) \o DataLine(<<"b">>) \o <<LF>>)}

\* Most events in one byte stream.
MaxEvents == 2

\* Largest slice fed short of the whole remainder.
MaxFeed == 2

RECURSIVE BytesOf(_)
BytesOf(bs) == IF bs = <<>> THEN <<>> ELSE Head(bs).bytes \o BytesOf(Tail(bs))

\* feed(&bytes[fed .. fed + n])
SseFeed(n) ==
    /\ blocks # <<>>
    /\ n >= 1
    /\ fed + n <= Len(BytesOf(blocks))
    /\ parser' = feed(parser, SubSeq(BytesOf(blocks), fed + 1, fed + n))
    /\ fed' = fed + n
    /\ bytewise' = (bytewise /\ n = 1)
    /\ lastcall' = NoCall
    /\ UNCHANGED <<blocks, events>>
    /\ UNCHANGED <<sendVars, envVars, streamVars, probeVars, usageVars, toolVars, callVars>>

\* next_event()
SseNext ==
    /\ blocks # <<>>
    /\ LET r == next_event(parser)
       IN /\ parser' = r.parser
          /\ events' = IF r.event.some THEN Append(events, r.event.data) ELSE events
          /\ lastcall' = [made |-> TRUE, before |-> parser, event |-> r.event,
                          after |-> r.parser]
    /\ UNCHANGED <<blocks, fed, bytewise>>
    /\ UNCHANGED <<sendVars, envVars, streamVars, probeVars, usageVars, toolVars, callVars>>

\* No send is in progress, no stream exists and no error is classified.
InitIdle ==
    /\ InitSend(DefaultConfig, "stream", "any")
    /\ provider = "cerebras"
    /\ bodies = "empty"
    /\ life = "none"
    /\ cs = NewStream("cerebras")
    /\ spc = "idle"
    /\ wire = <<>>
    /\ off = 0
    /\ inner = "open"
    /\ returned = <<>>
    /\ final = NotFinalized
    /\ arg = NoError
    /\ verdict = Unset

InitParser ==
    /\ InitIdle
    /\ InitCalls
    /\ InitUsage
    /\ InitTools
    /\ blocks \in UNION {[1..n -> SseBlocks] : n \in 1..MaxEvents}
    /\ parser = NewParser
    /\ fed = 0
    /\ bytewise = TRUE
    /\ events = <<>>
    /\ lastcall = NoCall

NextParser ==
    \/ \E n \in 1..MaxFeed : SseFeed(n)
    \/ SseFeed(Len(BytesOf(blocks)) - fed)
    \/ SseNext

SpecParser == InitParser /\ [][NextParser]_vars


(***************************************************************************)
(* An SseParser on a long-lived stream: events of about 4 KiB have been    *)
(* fed, and shorter ones follow.                                           *)
(***************************************************************************)
\* An event with one data line of n bytes.
Padded(n) == SseBlock(<<[i \in 1..n |-> "a"]>>, Ev([i \in 1..n |-> "a"]))

\* The bytes `data: ` and the two line ends of such an event.
FrameLen == Len(Ev(<<>>))

\* The events fed first: one a byte longer than the compaction threshold, one
\* exactly as long, or two of the longer.
LongPrefixes ==
    {<<Padded(CompactThreshold + 1 - FrameLen)>>,
     <<Padded(CompactThreshold - FrameLen)>>,
     <<Padded(CompactThreshold + 1 - FrameLen), Padded(CompactThreshold + 1 - FrameLen)>>}

\* The events that follow them.
ShortBlocks ==
    {SseBlock(<<(<<"a">>)>>, Ev(<<"a">>)),
     SseBlock(<<(<<"c">>)>>, <<"d", "a", "t", "a", ":", "c", CR, LF, CR, LF>>)}

\* The long events have arrived in one feed() and nothing has been read yet.
InitCompaction ==
    /\ InitIdle
    /\ InitCalls
    /\ InitUsage
    /\ InitTools
    /\ \E long \in LongPrefixes :
       \E tail \in UNION {[1..n -> ShortBlocks] : n \in 1..MaxEvents} :
          /\ blocks = long \o tail
          /\ parser = feed(NewParser, BytesOf(long))
          /\ fed = Len(BytesOf(long))
    /\ bytewise = FALSE
    /\ events = <<>>
    /\ lastcall = NoCall

SpecCompaction == InitCompaction /\ [][NextParser]_vars


(***************************************************************************)
(* Usage::merge applied to one Usage again and again.                      *)
(***************************************************************************)
Usage(i, o, r, c) ==
    [input_tokens |-> i, output_tokens |-> o,
     cache_read_input_tokens |-> r, cache_creation_input_tokens |-> c]

UsageValues ==
    {ZeroUsage, Usage(10, 5, 0, 0), Usage(8, 20, 0, 0), Usage(3, 3, 4, 1),
     Usage(5, 0, 1, 4), Usage(0, 7, 0, 9), Usage(1000000, 1, 2, 0), Usage(1, 1000000, 0, 2)}

\* Most Usage values merged into one.
MaxMerges == 3

\* total.merge(&other)
MergeUsage(other) ==
    /\ Len(merged) < MaxMerges
    /\ total' = merge(total, other)
    /\ merged' = Append(merged, other)
    /\ UNCHANGED <<sendVars, envVars, streamVars, probeVars, sseVars, toolVars, callVars>>

\* The caller starts over with Usage::default().
ResetUsage ==
    /\ merged # <<>>
    /\ total' = ZeroUsage
    /\ merged' = <<>>
    /\ UNCHANGED <<sendVars, envVars, streamVars, probeVars, sseVars, toolVars, callVars>>

InitMerge == InitIdle /\ InitSse /\ InitUsage /\ InitTools /\ InitCalls

NextMerge ==
    \/ \E other \in UsageValues : MergeUsage(other)
    \/ ResetUsage

SpecMerge == InitMerge /\ [][NextMerge]_vars


(***************************************************************************)
(* A ToolCallAccumulator driven directly: deltas are applied, then the     *)
(* accumulator is finalized.                                               *)
(***************************************************************************)
Str(s) == [some |-> TRUE, v |-> s]

C1Id == <<"c", "1">>
C2Id == <<"c", "2">>

DeltaValues ==
    {Delta(0, Str(C1Id), Str(<<"f">>), NoText),
     Delta(0, NoText, NoText, Str(<<"{">>)),
     Delta(0, NoText, NoText, Str(<<"a", "}">>)),
     Delta(0, Str(C1Id), NoText, Str(<<"a">>)),
     Delta(0, Str(<<>>), Str(<<>>), Str(<<"b">>)),
     Delta(0, NoText, Str(<<"f">>), Str(<<>>)),
     Delta(1, Str(C2Id), Str(<<"g">>), Str(<<"x">>)),
     Delta(1, NoText, NoText, Str(<<"y">>)),
     Delta(2, Str(C1Id), Str(<<"g">>), NoText)}

\* Most deltas applied to one accumulator.
MaxDeltas == 3

\* accumulator.apply(&delta)
ApplyDelta(delta) ==
    /\ ~built.done
    /\ Len(deltas) < MaxDeltas
    /\ accum' = apply(accum, delta)
    /\ deltas' = Append(deltas, delta)
    /\ UNCHANGED built
    /\ UNCHANGED <<sendVars, envVars, streamVars, probeVars, sseVars, usageVars, callVars>>

\* accumulator.finalize()
FinalizeCalls ==
    /\ ~built.done
    /\ built' = [done |-> TRUE, v |-> finalize_calls(accum)]
    /\ UNCHANGED <<accum, deltas>>
    /\ UNCHANGED <<sendVars, envVars, streamVars, probeVars, sseVars, usageVars, callVars>>

InitAccumulator == InitIdle /\ InitSse /\ InitUsage /\ InitTools /\ InitCalls

NextAccumulator ==
    \/ \E delta \in DeltaValues : ApplyDelta(delta)
    \/ FinalizeCalls

SpecAccumulator == InitAccumulator /\ [][NextAccumulator]_vars


(***************************************************************************)
(* A send from the RequestBuilder on: the checks of the model string, the  *)
(* adapter and the key, then the executor.                                 *)
(***************************************************************************)
\* The model strings of the requests.
RequestModels ==
    {<<"cerebras", SLASH, "m">>,
     <<"claude", SLASH, "m", SLASH, "x">>,
     <<"nope", SLASH, "m">>,
     <<"cerebras">>,
     <<SLASH, "m">>,
     <<"cerebras", SLASH>>,
     <<>>}

\* The provider names a Client may hold keys for.
KeySets == {{}, {<<"cerebras">>}, {<<"claude">>, <<"nope">>}}

\* send() or send_complete() is called on the builder.
SendRequest ==
    /\ pc = "new"
    /\ LET r == send(request, api_keys, mode)
       IN /\ model_id' = r.model_id
          /\ IF r.tag = "err"
             THEN /\ pc' = "done"
                  /\ result' = Failed(r.err)
                  /\ UNCHANGED envVars
             ELSE /\ pc' = "start"
                  /\ provider' = r.provider
                  /\ bodies' = BodiesOf(r.provider)
                  /\ UNCHANGED result
    /\ UNCHANGED <<cfg, server, mode, attempt, backoff, posts, sleeps, slept, log>>
    /\ UNCHANGED <<request, api_keys, environ, peerVars>>
    /\ UNCHANGED <<streamVars, probeVars, sseVars, usageVars, toolVars>>

InitRequest ==
    /\ cfg = [DefaultConfig EXCEPT !.max_retries = 2]
    /\ server = "flaky"
    /\ mode \in {"stream", "complete"}
    /\ pc = "new"
    /\ attempt = 0
    /\ backoff = cfg.retry_backoff
    /\ result = Pending
    /\ posts = 0
    /\ sleeps = <<>>
    /\ slept = 0
    /\ log = <<>>
    /\ InitEnv("", "empty")
    /\ InitSse /\ InitUsage /\ InitTools
    /\ \E s \in RequestModels, streaming \in BOOLEAN : request = Request(s, streaming)
    /\ model_id = NotParsed
    /\ api_keys \in KeySets
    /\ environ = {}
    /\ peer = NoPeer

NextRequest ==
    \/ SendRequest
    \/ Post
    \/ \E resp \in Responses : Respond(resp)
    \/ \E j \in JitterPercents : Sleep(j)

SpecRequest == InitRequest /\ [][NextRequest]_vars


(***************************************************************************)
(* A send against a rate-limiting server, which answers 429 with a         *)
(* Retry-After of 12 s, of 45 s or without one, 500, a timeout or 200.     *)
(***************************************************************************)
InitRateLimited ==
    \E c \in Configs, m \in {"stream", "complete"} :
        /\ InitSend(c, m, "limiting")
        /\ InitNoStream("cerebras", "empty")

NextRateLimited ==
    \/ Post
    \/ \E resp \in ServerResponses("limiting") : Respond(resp)
    \/ \E j \in JitterPercents : Sleep(j)

SpecRateLimited == InitRateLimited /\ [][NextRateLimited]_vars


(***************************************************************************)
(* A Client built with ClientBuilder::new().from_env().build(), and a send *)
(* on it.                                                                  *)
(***************************************************************************)
EnvVars == {env_mappings[i].env_var : i \in 1..Len(env_mappings)}

\* Well-formed model ids: one per registered adapter, and one that names the
\* vendor of the Anthropic adapter.
EnvModels ==
    {<<prov, SLASH, "m">> : prov \in Providers \cup {"anthropic"}}

\* from_env() and build()
FromEnv ==
    /\ pc = "build"
    /\ api_keys' = from_env(api_keys, environ)
    /\ pc' = "new"
    /\ UNCHANGED <<cfg, server, mode, attempt, backoff, result, posts, sleeps, slept, log>>
    /\ UNCHANGED <<request, model_id, environ, peerVars>>
    /\ UNCHANGED <<envVars, streamVars, probeVars, sseVars, usageVars, toolVars>>

InitFromEnv ==
    /\ cfg = [DefaultConfig EXCEPT !.max_retries = 2]
    /\ server = "flaky"
    /\ mode \in {"stream", "complete"}
    /\ pc = "build"
    /\ attempt = 0
    /\ backoff = cfg.retry_backoff
    /\ result = Pending
    /\ posts = 0
    /\ sleeps = <<>>
    /\ slept = 0
    /\ log = <<>>
    /\ InitEnv("", "empty")
    /\ InitSse /\ InitUsage /\ InitTools
    /\ \E s \in EnvModels, streaming \in BOOLEAN : request = Request(s, streaming)
    /\ model_id = NotParsed
    /\ api_keys = {}
    /\ environ \in SUBSET EnvVars
    /\ peer = NoPeer

NextFromEnv ==
    \/ FromEnv
    \/ SendRequest
    \/ Post
    \/ \E resp \in Responses : Respond(resp)
    \/ \E j \in JitterPercents : Sleep(j)

SpecFromEnv == InitFromEnv /\ [][NextFromEnv]_vars


(***************************************************************************)
(* Two sends that run concurrently on one Client: the send of sendVars and *)
(* the send of `peer`, which share the configuration and the server.  The  *)
(* stream a streaming peer returns is not followed.                        *)
(***************************************************************************)
\* Largest max_retries of the shared client.
MaxPeerRetries == 2

ConcurrentConfigs == {[DefaultConfig EXCEPT !.max_retries = n] : n \in 0..MaxPeerRetries}

\* `attempt += 1` and the POST of one loop iteration of the peer.
PostPeer ==
    /\ peer.pc = "start"
    /\ peer' = [peer EXCEPT !.attempt = LocalAttempt(peer) + 1,
                            !.posts = @ + 1,
                            !.pc = "await"]
    /\ UNCHANGED <<sendVars, envVars, streamVars, probeVars>>
    /\ UNCHANGED <<sseVars, usageVars, toolVars, requestVars>>

\* The response to the peer's POST arrives and is matched.
RespondPeer(resp) ==
    /\ peer.pc = "await"
    /\ resp \in ServerResponses(server)
    /\ LET st == MatchResponse(cfg, peer.mode, LocalAttempt(peer), peer.backoff, resp)
       IN peer' = [peer EXCEPT !.pc = st.pc,
                               !.backoff = st.backoff,
                               !.result = st.result,
                               !.log = Append(@, resp)]
    /\ UNCHANGED <<sendVars, envVars, streamVars, probeVars>>
    /\ UNCHANGED <<sseVars, usageVars, toolVars, requestVars>>

\* The peer sleeps, then its backoff grows.
SleepPeer ==
    /\ peer.pc = "sleep"
    /\ peer' = [peer EXCEPT !.sleeps = Append(@, peer.backoff),
                            !.backoff = NextBackoff(cfg, peer.backoff),
                            !.pc = "start"]
    /\ UNCHANGED <<sendVars, envVars, streamVars, probeVars>>
    /\ UNCHANGED <<sseVars, usageVars, toolVars, requestVars>>

InitConcurrent ==
    /\ \E c \in ConcurrentConfigs, m \in {"stream", "complete"} : InitSend(c, m, "busy")
    /\ InitEnv("cerebras", "empty")
    /\ InitSse /\ InitUsage /\ InitTools
    /\ request = NoRequest
    /\ model_id = NotParsed
    /\ api_keys = {}
    /\ environ = {}
    /\ \E m \in {"stream", "complete"} :
          peer = Peer(m, "start", 0, cfg.retry_backoff, Pending, 0, <<>>, <<>>)

NextConcurrent ==
    \/ Post
    \/ \E resp \in Responses : Respond(resp)
    \/ \E j \in JitterPercents : Sleep(j)
    \/ PostPeer
    \/ \E resp \in Responses : RespondPeer(resp)
    \/ SleepPeer

SpecConcurrent == InitConcurrent /\ [][NextConcurrent]_vars


(***************************************************************************)
(* ModelId::parse called on any string.                                    *)
(***************************************************************************)
IdPieces == {"a", "b", SLASH}

\* Longest model string parsed.
MaxIdLen == 4

IdStrings == UNION {[1..n -> IdPieces] : n \in 0..MaxIdLen}

\* A caller parses the model string.
ParseModelId ==
    /\ model_id = NotParsed
    /\ model_id' = ModelId_parse(request.model)
    /\ UNCHANGED <<request, api_keys, environ, peerVars>>
    /\ UNCHANGED <<sendVars, envVars, streamVars, probeVars, sseVars, usageVars, toolVars>>

\* The caller drops the result.
DropModelId ==
    /\ model_id # NotParsed
    /\ model_id' = NotParsed
    /\ UNCHANGED <<request, api_keys, environ, peerVars>>
    /\ UNCHANGED <<sendVars, envVars, streamVars, probeVars, sseVars, usageVars, toolVars>>

InitModelId ==
    /\ InitIdle /\ InitSse /\ InitUsage /\ InitTools
    /\ \E s \in IdStrings : request = Request(s, TRUE)
    /\ model_id = NotParsed
    /\ api_keys = {}
    /\ environ = {}
    /\ peer = NoPeer

NextModelId == ParseModelId \/ DropModelId

SpecModelId == InitModelId /\ [][NextModelId]_vars


(***************************************************************************)
(* Properties of the retry loop (specification Spec).                      *)
(***************************************************************************)
Last(seq) == seq[Len(seq)]

IsHttp(r, status) == r.net = "ok" /\ r.status = status

\* C1 (as amended): whatever the configuration and the responses, one send
\* issues at most max(max_retries, 1) HTTP requests, and a send that has
\* returned has issued at least one.
C1_RequestsBounded ==
    /\ posts <= Max(cfg.max_retries, 1)
    /\ pc = "done" => posts >= 1

\* C1 witness: a send gave up after as many requests as max_retries allows.
C1_BoundReached ==
    /\ pc = "done"
    /\ result.tag = "err"
    /\ cfg.max_retries >= 2
    /\ posts = cfg.max_retries

\* C1 as stated: at most max_retries requests, for max_retries = 0 too.
C1_AtMostMaxRetries == posts <= cfg.max_retries

AllAnswered500 == \A i \in 1..Len(log) : IsHttp(log[i], 500)

\* C2 (as amended): a send whose every attempt was answered with HTTP 500
\* returns after exactly max(max_retries, 1) POSTs, and returns the server
\* error carrying status 500.
C2_All500Exhausts ==
    (pc = "done" /\ AllAnswered500) =>
        /\ posts = Max(cfg.max_retries, 1)
        /\ result = Failed(ServerError(500))

\* C2 witness: three 500 answers in a row exhausted a client of max_retries 3.
C2_Exhausted ==
    /\ pc = "done"
    /\ AllAnswered500
    /\ Len(log) = DefaultMaxRetries
    /\ cfg.max_retries = DefaultMaxRetries

\* C2 as stated: exactly max_retries POSTs.
C2_ExactlyMaxRetries ==
    (pc = "done" /\ AllAnswered500) =>
        /\ posts = cfg.max_retries
        /\ result = Failed(ServerError(500))

\* The failures the retry policy names as retryable: HTTP 429, HTTP 5xx, and a
\* connect or read timeout.
NamedRetryable(r) ==
    \/ r.net = "ok" /\ (r.status = 429 \/ r.status \in 500..599)
    \/ r.net = "err" /\ r.timeout

IsFailure(r) == r.net = "err" \/ ~(r.status \in 200..299)

\* C3 as stated: a failed attempt that is not HTTP 429, HTTP 5xx or a timeout
\* is the last attempt of its send, and the send returns its error without
\* sleeping.
C3_OtherFailuresTerminal ==
    \A i \in 1..Len(log) :
        (IsFailure(log[i]) /\ ~NamedRetryable(log[i])) =>
            /\ i = Len(log)
            /\ pc = "done"
            /\ result.tag = "err"
            /\ Len(sleeps) = i - 1

\* The Retry-After values of the modelled servers that are integers, in seconds.
IntegerSeconds(h) ==
    IF ~h.present THEN None
    ELSE IF h.value = <<"1", "2">> THEN Some(12)
    ELSE IF h.value = <<"+", "1">> THEN Some(1)
    ELSE None

\* The backoff value the loop holds when the i-th response arrives: the
\* initial delay, or the previous base delay multiplied and capped.
CurrentBackoff(i) ==
    IF i = 1 THEN cfg.retry_backoff
    ELSE Min(sleeps[i - 1] * cfg.backoff_multiplier, cfg.max_backoff)

\* C5: the sleep that follows a retried 429 has base delay n seconds when the
\* response's Retry-After header is the integer n, and the current exponential
\* backoff value when the header is absent or is not an integer.
C5_RetryAfterReplacesBackoff ==
    \A i \in 1..Len(sleeps) :
        IsHttp(log[i], 429) =>
            LET n == IntegerSeconds(log[i].retry_after)
            IN sleeps[i] = IF n.some THEN n.v * 1000 ELSE CurrentBackoff(i)

\* C5 witness: a 429 with "Retry-After: 12" and, after the retry, a 429 with an
\* HTTP-date-like Retry-After have both been slept on.
C5_BothKindsSlept ==
    /\ Len(sleeps) >= 2
    /\ IsHttp(log[1], 429)
    /\ log[1].retry_after = Header(<<"1", "2">>)
    /\ sleeps[1] = 12000
    /\ IsHttp(log[2], 429)
    /\ log[2].retry_after = Header(<<"W", "e", "d">>)
    /\ sleeps[2] = 24000

RECURSIVE Pow(_, _)
Pow(b, e) == IF e = 0 THEN 1 ELSE b * Pow(b, e - 1)

NoRetryAfterSeen == \A i \in 1..Len(log) : ~log[i].retry_after.present

\* C6 as stated: with no Retry-After in the send, the k-th sleep has base delay
\* min(initial_backoff * multiplier^(k-1), max_backoff), so never above
\* max_backoff.
C6_BackoffSchedule ==
    NoRetryAfterSeen =>
        \A k \in 1..Len(sleeps) :
            /\ sleeps[k] = Min(cfg.retry_backoff * Pow(cfg.backoff_multiplier, k - 1),
                               cfg.max_backoff)
            /\ sleeps[k] <= cfg.max_backoff

\* C8: a send that returns on a non-2xx response returns 401 as unauthorized,
\* 429 as rate-limited with the parsed Retry-After, 500..599 as the server
\* error of that status, and any other status as an API error of that status
\* whose message is the body's error.message string, else the body as read.
C8_ClassifiedByStatus ==
    (pc = "done" /\ Last(log).net = "ok" /\ ~(Last(log).status \in 200..299)) =>
        LET r == Last(log)
            e == result.err
            n == IntegerSeconds(r.retry_after)
        IN /\ result.tag = "err"
           /\ CASE r.status = 401 -> e.kind = "Unauthorized"
                [] r.status = 429 ->
                      /\ e.kind = "RateLimited"
                      /\ e.retry_after = IF n.some THEN Some(n.v * 1000) ELSE None
                [] r.status \in 500..599 -> e.kind = "Server" /\ e.status = r.status
                [] OTHER ->
                      /\ e.kind = "Api"
                      /\ e.status = r.status
                      /\ e.message = IF ~r.body.read THEN ""
                                     ELSE IF r.body.raw = JsonWithMessage THEN "bad request"
                                     ELSE r.body.raw

\* C8 witness: sends have returned on 599 as a server error.
C8_ServerErrorSurfaced ==
    /\ pc = "done"
    /\ IsHttp(Last(log), 599)
    /\ result = Failed(ServerError(599))


(***************************************************************************)
(* Properties of the stream (specification SpecStreaming).                 *)
(***************************************************************************)
\* C4: once the 2xx response has produced the stream, the send issues no
\* further request; a transport error on the body is what the suspended next()
\* returns, the stream is then done, and every later next() returns
\* end-of-stream.
C4_NoMidStreamRetry ==
    /\ life # "none" =>
          /\ pc = "done"
          /\ posts = Len(log)
          /\ Last(log).status \in 200..299
          /\ \A i \in 1..(Len(log) - 1) : ~(log[i].status \in 200..299)
    /\ inner = "failed" =>
          /\ cs.done
          /\ \E k \in 1..Len(returned) : returned[k] = YieldErr(HttpError)
    /\ \A k \in 1..Len(returned) :
          returned[k] = YieldErr(HttpError) =>
              /\ cs.done
              /\ \A j \in (k + 1)..Len(returned) : returned[j] = EndOfStream

\* C4 witness: after one retry the stream was opened, it yielded a chunk, the
\* transport failed, and a later next() returned end-of-stream.
C4_FailedThenEnded ==
    /\ posts = 2
    /\ inner = "failed"
    /\ Len(returned) >= 3
    /\ returned[1].tag = "chunk"
    /\ returned[2] = YieldErr(HttpError)
    /\ returned[3] = EndOfStream

\* The stream-consumed answer of a repeated finalize() call.
FinalizeAgain ==
    /\ life = "consumed"
    /\ final' = Finalized("err", NoAggregate, StreamConsumed)

\* C9 as stated: after the first finalize() has returned the aggregate, the
\* stream can be finalized again and the call yields stream-consumed.
C9_RepeatedFinalizeYieldsConsumed ==
    life = "consumed" =>
        /\ final.tag = "ok"
        /\ ENABLED (Finalize /\ FinalizeAgain)

\* C10 as stated: the next() that decodes a bad event returns the parse error,
\* the stream is then done, and every later next() returns end-of-stream.
C10_ParseErrorAborts ==
    \A k \in 1..Len(returned) :
        (returned[k].tag = "err" /\ returned[k].err.kind = "Parse") =>
            /\ cs.done
            /\ \A j \in (k + 1)..Len(returned) : returned[j] = EndOfStream


(***************************************************************************)
(* Properties of Error::is_retryable (specification SpecErrors).           *)
(***************************************************************************)
\* C7: is_retryable answers true exactly for the kinds rate-limited, server
\* and timeout, and false for every other kind.
C7_RetryableKinds ==
    verdict.set =>
        /\ arg.kind \in {"RateLimited", "Server", "Timeout"} => verdict.retryable
        /\ arg.kind \in {"Unauthorized", "Api", "Parse", "InvalidModel", "MissingApiKey",
                         "Http", "StreamConsumed", "Config"} => ~verdict.retryable
        /\ arg.kind \in ErrorKinds

\* C7 witness: a server error has been classified as retryable.
C7_ServerClassified ==
    /\ verdict.set
    /\ arg = ServerError(503)
    /\ verdict.retryable


(***************************************************************************)
(* Properties of SseParser (specification SpecParser).                     *)
(***************************************************************************)
\* Every event the parser returns when the whole stream is fed in one call.
RECURSIVE DrainAll(_)
DrainAll(p) ==
    LET r == next_event(p)
    IN IF r.event.some THEN <<r.event.data>> \o DrainAll(r.parser) ELSE <<>>

FedAtOnce == DrainAll(feed(NewParser, BytesOf(blocks)))

AllFedAndDrained ==
    /\ fed = Len(BytesOf(blocks))
    /\ lastcall.made
    /\ lastcall.after = parser
    /\ ~lastcall.event.some

\* C11: however the bytes of N complete events are sliced into feeds, the
\* events returned so far are the first events of the one-feed run, and once
\* everything is fed and drained they are exactly its N events, in order.
C11_PartitionIndependent ==
    /\ Len(events) <= Len(FedAtOnce)
    /\ events = Take(FedAtOnce, Len(events))
    /\ AllFedAndDrained => events = FedAtOnce /\ Len(events) = Len(blocks)

\* C11 witness: two events were fed one byte per feed and both came out.
C11_ByteByByte ==
    /\ AllFedAndDrained
    /\ Len(blocks) = 2
    /\ bytewise
    /\ Len(events) = 2
    /\ events[1] # events[2]

\* An empty line, alone or before its CR: the blank line that ends an event.
HasBlankLine(buf) ==
    \E i \in 1..Len(buf) :
        /\ buf[i] = LF
        /\ \/ i = 1
           \/ buf[i - 1] = LF
           \/ buf[i - 1] = CR /\ (i = 2 \/ buf[i - 2] = LF)

RECURSIVE JoinLF(_)
JoinLF(values) ==
    IF Len(values) = 1 THEN values[1]
    ELSE values[1] \o <<LF>> \o JoinLF(Tail(values))

\* C13 as stated: the data of an event is the values of its data lines joined
\* with one newline between consecutive values, empty values included.
C13_DataJoinedWithNewlines ==
    \A i \in 1..Len(events) : events[i] = JoinLF(blocks[i].values)


(***************************************************************************)
(* Properties of Usage::merge (specification SpecMerge).                   *)
(***************************************************************************)
UsageFields ==
    {"input_tokens", "output_tokens", "cache_read_input_tokens",
     "cache_creation_input_tokens"}

\* The largest value of field f among the merged inputs, 0 when there is none.
FieldMax(f) ==
    LET vals == {0} \cup {merged[i][f] : i \in 1..Len(merged)}
    IN CHOOSE m \in vals : \A v \in vals : v <= m

\* C14: after any sequence of merges into a zero Usage, every field of the
\* result is the maximum of that field over the inputs, whatever their order,
\* and so is at least every input's field.
C14_MergeIsFieldwiseMax ==
    \A f \in UsageFields :
        /\ total[f] = FieldMax(f)
        /\ \A i \in 1..Len(merged) : total[f] >= merged[i][f]

\* C14 witness: three values were merged, the result is none of them, and the
\* last one merged was smaller in a field than an earlier one.
C14_MixedMaximum ==
    /\ Len(merged) = 3
    /\ \A i \in 1..3 : total # merged[i]
    /\ merged[3].input_tokens < merged[1].input_tokens
    /\ merged[3].output_tokens > merged[1].output_tokens


(***************************************************************************)
(* Properties of ToolCallAccumulator (specification SpecAccumulator).      *)
(***************************************************************************)
\* The argument fragments delivered under index i, concatenated in order.
RECURSIVE ArgsOf(_, _)
ArgsOf(ds, i) ==
    IF ds = <<>> THEN <<>>
    ELSE (IF Head(ds).index = i /\ Head(ds).function_arguments.some
          THEN Head(ds).function_arguments.v ELSE <<>>) \o ArgsOf(Tail(ds), i)

DeltasAt(i) == SelectSeq(deltas, LAMBDA d : d.index = i)

\* Where the builder of index i lands in the finalized list.
PositionOf(i) == Cardinality({j \in 0..i : accum[j + 1].id # <<>>})

\* C15: when the first delta of an index carries the id, the finalized tool
\* call of that index has as arguments the fragments delivered under the
\* index, concatenated in delivery order.
C15_ArgumentsReassembled ==
    built.done =>
        \A i \in 0..(Len(accum) - 1) :
            (DeltasAt(i) # <<>> /\ DeltasAt(i)[1].id.some /\ DeltasAt(i)[1].id.v # <<>>) =>
                /\ PositionOf(i) \in 1..Len(built.v)
                /\ built.v[PositionOf(i)].arguments = ArgsOf(deltas, i)

\* C15 witness: the id came on the first delta, the arguments in two later
\* fragments, and the finalized call carries the whole string.
C15_SplitArguments ==
    /\ built.done
    /\ Len(deltas) = 3
    /\ deltas[1] = Delta(0, Str(C1Id), Str(<<"f">>), NoText)
    /\ deltas[2].function_arguments = Str(<<"{">>)
    /\ deltas[3].function_arguments = Str(<<"a", "}">>)
    /\ Len(built.v) = 1
    /\ built.v[1].arguments = <<"{", "a", "}">>

\* The last non-empty value of a field among the deltas of index i.
RECURSIVE LastNonEmpty(_, _, _, _)
LastNonEmpty(ds, i, field, cur) ==
    IF ds = <<>> THEN cur
    ELSE LastNonEmpty(Tail(ds), i, field,
                      IF Head(ds).index = i /\ Head(ds)[field].some /\ Head(ds)[field].v # <<>>
                      THEN Head(ds)[field].v ELSE cur)

\* C16 as stated: a builder's id and name are the last non-empty id and name
\* delivered under its index, and its arguments are the concatenated fragments.
C16_IdAndNameReplaced ==
    \A i \in 0..(Len(accum) - 1) :
        /\ accum[i + 1].id = LastNonEmpty(deltas, i, "id", <<>>)
        /\ accum[i + 1].name = LastNonEmpty(deltas, i, "function_name", <<>>)
        /\ accum[i + 1].arguments = ArgsOf(deltas, i)

HasId(b) == b.id # <<>>

\* C18: finalize returns exactly the builders whose id is non-empty, in
\* increasing index order, and drops every builder whose id is empty.
C18_EmptyIdDropped ==
    built.done =>
        LET kept == SelectSeq(accum, HasId)
        IN /\ Len(built.v) = Len(kept)
           /\ \A k \in 1..Len(kept) :
                 /\ built.v[k].id = kept[k].id
                 /\ built.v[k].name = kept[k].name
                 /\ built.v[k].arguments = kept[k].arguments
           /\ \A k \in 1..Len(built.v) : built.v[k].id # <<>>

\* C18 witness: a gap slot and a builder that never received an id were
\* dropped, and the one builder with an id was kept.
C18_GapAndPhantomDropped ==
    /\ built.done
    /\ Len(accum) = 3
    /\ accum[1] = NewBuilder
    /\ accum[2].id = <<>>
    /\ accum[2].arguments # <<>>
    /\ Len(built.v) = 1
    /\ built.v[1].id = C1Id


(***************************************************************************)
(* Properties of the aggregation (specification SpecStreaming).            *)
(***************************************************************************)
RECURSIVE FragmentText(_)
FragmentText(fragments) ==
    IF fragments = <<>> THEN <<>>
    ELSE ClaudeJsonOf(<<Head(fragments)>>).text \o FragmentText(Tail(fragments))

\* The stream was read to the close of the body and then finalized.
DrainedAndFinalized ==
    /\ final.tag = "ok"
    /\ off = Len(wire)
    /\ inner = "closed"
    /\ returned # <<>>
    /\ Last(returned) = EndOfStream

\* C17 as stated: an Anthropic tool-use stream with k >= 1 input_json_delta
\* fragments, drained and finalized, yields exactly one tool call with the
\* block's id and name and the concatenated fragments, and finish reason
\* tool-calls.
C17_ClaudeToolUseReassembled ==
    \A fragments \in {<<"1">>, <<"1", "2">>} :
        (provider = "claude" /\ wire = ToolUseWire(fragments) /\ DrainedAndFinalized) =>
            /\ final.value.tool_calls =
                  <<[id |-> ToolUseId, tool_type |-> "function", name |-> ToolUseName,
                     arguments |-> FragmentText(fragments)]>>
            /\ final.value.finish_reason = "ToolCalls"

\* The text fragments of the chunks returned so far, concatenated.
RECURSIVE TextOf(_)
TextOf(rets) ==
    IF rets = <<>> THEN <<>>
    ELSE (IF Head(rets).tag = "chunk" THEN Head(rets).chunk.text ELSE <<>>)
         \o TextOf(Tail(rets))

\* C19: the accumulated content is always the concatenation, in delivery
\* order, of the text of the chunks next() has returned, and the finalized
\* result carries that string.
C19_ContentIsReturnedText ==
    /\ life = "live" => cs.content = TextOf(returned)
    /\ final.tag = "ok" => final.value.content = TextOf(returned)

\* C19 witness: two text chunks were returned around a decoder error and the
\* finalized content is both texts in order.
C19_TwoFragments ==
    /\ final.tag = "ok"
    /\ final.value.content = <<"a", "b">>
    /\ Len(returned) >= 3
    /\ returned[1].tag = "chunk"
    /\ returned[2].tag = "err"
    /\ returned[3].tag = "chunk"

\* The chunks a decoder produces for the data of complete events, in order, up
\* to the end-of-stream sentinel.
RECURSIVE DecodeAll(_, _, _)
DecodeAll(prov, pp, datas) ==
    IF datas = <<>> \/ is_end_of_stream(prov, Head(datas)) THEN <<>>
    ELSE LET d == parse_chunk(prov, pp, Head(datas))
         IN (IF d.tag = "chunk" THEN <<d.chunk>> ELSE <<>>)
            \o DecodeAll(prov, d.pp, Tail(datas))

ProducedChunks ==
    DecodeAll(provider, create_parser(provider), DrainAll(feed(NewParser, Take(wire, off))))

RECURSIVE ChunksOf(_)
ChunksOf(rets) ==
    IF rets = <<>> THEN <<>>
    ELSE (IF Head(rets).tag = "chunk" THEN <<Head(rets).chunk>> ELSE <<>>)
         \o ChunksOf(Tail(rets))

\* C20: the chunks next() has returned are the first chunks the decoder
\* produces for the events of the bytes delivered, in event order, and they
\* are all of them once next() awaits more bytes or the stream is done,
\* whatever the slices the transport delivered.
C20_ChunksInEventOrder ==
    life # "none" =>
        LET got == ChunksOf(returned)
        IN /\ Len(got) <= Len(ProducedChunks)
           /\ got = Take(ProducedChunks, Len(got))
           /\ (spc = "polling" \/ cs.done) => got = ProducedChunks

\* C20 witness: three chunks and the end of the stream were returned for a
\* body of three events and the sentinel.
C20_AllChunksReturned ==
    /\ wire = Ev(<<"a">>) \o Ev(<<"b">>) \o Ev(<<"u">>) \o Ev(DONE)
    /\ cs.done
    /\ Len(returned) = 4
    /\ returned[1] = Yield(text_owned(<<"a">>))
    /\ returned[2] = Yield(text_owned(<<"b">>))
    /\ returned[3].tag = "chunk"
    /\ returned[4] = EndOfStream

(***************************************************************************)
(* The end-of-stream sentinel.                                             *)
(***************************************************************************)
\* The data of the events next() has taken out of the buffer so far.
ConsumedEvents ==
    DrainAll(feed(NewParser, Take(cs.parser.buffer, cs.parser.consumed)))

\* next() marked the stream done without the transport failing or closing.
EndedBySentinel == cs.done /\ inner = "open"

Contains(data, word) ==
    \E i \in 1..Len(data) : \E j \in i..Len(data) : SubSeq(data, i, j) = word

\* C21: a stream is ended by sentinel exactly when it is read by the
\* OpenAI-compatible decoder and the data of the last event taken from the
\* buffer is [DONE] as a whole; an event whose data only contains [DONE] is
\* decoded and its chunk returned; with the Gemini, Anthropic and Responses
\* decoders no event ends the stream, an event with data [DONE] included.
C21_SentinelIsWholeData ==
    life # "none" =>
        LET evs == ConsumedEvents
        IN /\ EndedBySentinel <=>
                (provider = "cerebras" /\ evs # <<>> /\ Last(evs) = DONE)
           /\ \A i \in 1..Len(evs) :
                 (provider = "cerebras" /\ Contains(evs[i], DONE) /\ evs[i] # DONE) =>
                     \E k \in 1..Len(returned) :
                         /\ returned[k].tag = "chunk"
                         /\ returned[k].chunk.text = DONE
           /\ provider # "cerebras" => ~EndedBySentinel

\* C21 witness: the OpenAI-compatible decoder returned the chunk of an event
\* whose payload quotes [DONE], went on to the next event, and ended the
\* stream at the event whose data is [DONE].
C21_QuotedThenSentinel ==
    /\ provider = "cerebras"
    /\ Len(returned) = 4
    /\ returned[2] = Yield(text_owned(DONE))
    /\ returned[3].tag = "chunk"
    /\ returned[4] = EndOfStream
    /\ EndedBySentinel
    /\ ConsumedEvents = <<<<"f">>, QuotedDone, <<"l">>, DONE>>

(***************************************************************************)
(* The last event of a body the server closes.                             *)
(***************************************************************************)
\* The data of the complete events among the bytes delivered so far.
DeliveredEvents == DrainAll(feed(NewParser, Take(wire, off)))

Front(seq) == SubSeq(seq, 1, Len(seq) - 1)

\* The last complete event delivered is decoded to a chunk, and no sentinel
\* ended the stream before it.
FinalEventYields ==
    LET evs == DeliveredEvents
    IN /\ evs # <<>>
       /\ \A i \in 1..Len(evs) : ~(provider = "cerebras" /\ evs[i] = DONE)
       /\ Len(DecodeAll(provider, create_parser(provider), evs))
             > Len(DecodeAll(provider, create_parser(provider), Front(evs)))

GeminiText(data) ==
    LET doc == GeminiJsonOf(data)
    IN IF doc.candidates # <<>> /\ doc.candidates[1].content.some
       THEN PartsText(doc.candidates[1].content.parts)
       ELSE <<>>

RECURSIVE GeminiTexts(_)
GeminiTexts(datas) ==
    IF datas = <<>> THEN <<>> ELSE GeminiText(Head(datas)) \o GeminiTexts(Tail(datas))

\* The usageMetadata of the last event that carries one.
RECURSIVE LastUsageMetadata(_)
LastUsageMetadata(datas) ==
    IF datas = <<>> THEN ZeroUsage
    ELSE IF GeminiJsonOf(Last(datas)).usage_metadata.some
         THEN GeminiJsonOf(Last(datas)).usage_metadata.v
         ELSE LastUsageMetadata(Front(datas))

\* The body was delivered whole, next() was called until it returned
\* end-of-stream at the close of the byte stream, and finalize() was called.
DrainedToClose ==
    /\ inner = "closed"
    /\ off = Len(wire)
    /\ returned # <<>>
    /\ Last(returned) = EndOfStream
    /\ final.tag = "ok"

\* C23: for a Gemini body of well-formed events that the server closes
\* without a sentinel, the drained and finalized stream has the concatenated
\* text of the events as content and the usageMetadata of the last event
\* that carried one as usage.
C23_GeminiLatestUsage ==
    (provider = "gemini" /\ DrainedToClose
        /\ \A i \in 1..Len(DeliveredEvents) : GeminiJsonOf(DeliveredEvents[i]).valid) =>
        /\ final.value.content = GeminiTexts(DeliveredEvents)
        /\ final.value.usage = LastUsageMetadata(DeliveredEvents)

(***************************************************************************)
(* The finish reason of the aggregate.                                     *)
(***************************************************************************)
\* The finish reason of the last returned chunk that carries one.
RECURSIVE LastReason(_)
LastReason(rets) ==
    IF rets = <<>> THEN NoReason
    ELSE IF Last(rets).tag = "chunk" /\ Last(rets).chunk.finish_reason.some
         THEN Last(rets).chunk.finish_reason
         ELSE LastReason(Front(rets))

\* C24: the finish reason the stream holds is always that of the last
\* returned chunk that carried one, so a chunk without one neither changes
\* nor clears it, and finalize() reports that reason.
C24_LatestReasonWins ==
    life # "none" =>
        /\ cs.finish_reason = LastReason(returned)
        /\ (final.tag = "ok" /\ LastReason(returned).some) =>
               final.value.finish_reason = LastReason(returned).v

\* C24 witness: chunks with reason stop, with no reason and with reason
\* length were returned in that order, and the stream finalized with length.
C24_StopThenLength ==
    /\ Len(returned) >= 3
    /\ returned[1].tag = "chunk" /\ returned[1].chunk.finish_reason = Some("Stop")
    /\ returned[2].tag = "chunk" /\ ~returned[2].chunk.finish_reason.some
    /\ returned[3].tag = "chunk" /\ returned[3].chunk.finish_reason = Some("Length")
    /\ final.tag = "ok"
    /\ final.value.finish_reason = "Length"

(***************************************************************************)
(* Vendor finish codes.                                                    *)
(***************************************************************************)
\* The finish or stop code an event carries for the decoder that reads it.
VendorCode(prov, data) ==
    CASE prov = "claude" ->
            IF ClaudeJsonOf(data).valid /\ ClaudeJsonOf(data).type = "message_delta"
            THEN Some(ClaudeJsonOf(data).reason) ELSE NoReason
      [] prov = "gemini" ->
            IF GeminiJsonOf(data).valid /\ GeminiJsonOf(data).candidates # <<>>
            THEN GeminiJsonOf(data).candidates[1].finish_reason ELSE NoReason
      [] prov = "openai" ->
            IF OpenAIJsonOf(data).valid /\ OpenAIJsonOf(data).type = "response.completed"
            THEN Some(OpenAIJsonOf(data).status) ELSE NoReason
      [] OTHER ->
            IF JsonOf(data).valid /\ JsonOf(data).choices # <<>>
            THEN JsonOf(data).choices[1].finish_reason ELSE NoReason

\* The codes each decoder maps to a finish reason of their own.
Recognised(prov) ==
    CASE prov = "claude" -> {"end_turn", "max_tokens", "tool_use", "stop_sequence"}
      [] prov = "gemini" -> {"STOP", "MAX_TOKENS", "SAFETY"}
      [] prov = "openai" -> {"completed", "incomplete"}
      [] OTHER -> {"stop", "length", "tool_calls", "content_filter"}

\* The last code among the events.
RECURSIVE LastCode(_, _)
LastCode(prov, datas) ==
    IF datas = <<>> THEN NoReason
    ELSE IF VendorCode(prov, Last(datas)).some THEN VendorCode(prov, Last(datas))
         ELSE LastCode(prov, Front(datas))

\* C25: when the last finish or stop code of the events a stream has decoded
\* is outside the set its decoder recognises, the finalized result reports
\* finish reason unknown, whichever the decoder.
C25_UnrecognisedCodeIsUnknown ==
    (final.tag = "ok" /\ LastCode(provider, ConsumedEvents).some
        /\ LastCode(provider, ConsumedEvents).v \notin Recognised(provider)) =>
        final.value.finish_reason = "Unknown"

(***************************************************************************)
(* The finish reason of an OpenAI Responses stream.                        *)
(***************************************************************************)
\* A chunk with a tool-call delta was returned.
ToolDeltaReturned ==
    \E k \in 1..Len(returned) :
        returned[k].tag = "chunk" /\ returned[k].chunk.tool_call_delta.some

\* The finish reason the status of response.completed stands for.
ReasonOfStatus(status) ==
    IF status = "completed" THEN "Stop"
    ELSE IF status = "incomplete" THEN "Length"
    ELSE "Unknown"

\* C26: a finalized Responses stream that decoded response.completed reports
\* tool-calls when a tool-call delta was returned before it, and otherwise
\* stop, length or unknown by the status of the response.
C26_ToolCallsOverride ==
    (provider = "openai" /\ final.tag = "ok" /\ LastCode(provider, ConsumedEvents).some) =>
        final.value.finish_reason =
            IF ToolDeltaReturned THEN "ToolCalls"
            ELSE ReasonOfStatus(LastCode(provider, ConsumedEvents).v)

(***************************************************************************)
(* finalize() at any point of a stream.                                    *)
(***************************************************************************)
\* The largest value of usage field f among the returned chunks, 0 without any.
ReturnedMax(f) ==
    LET vals == {0} \cup {returned[k].chunk.usage.v[f] :
                            k \in {j \in 1..Len(returned) :
                                     returned[j].tag = "chunk"
                                     /\ returned[j].chunk.usage.some}}
    IN CHOOSE m \in vals : \A v \in vals : v <= m

\* The tool-call builders the deltas of the returned chunks add up to.
RECURSIVE ReturnedCalls(_)
ReturnedCalls(rets) ==
    IF rets = <<>> THEN <<>>
    ELSE IF Last(rets).tag = "chunk" /\ Last(rets).chunk.tool_call_delta.some
         THEN apply(ReturnedCalls(Front(rets)), Last(rets).chunk.tool_call_delta.v)
         ELSE ReturnedCalls(Front(rets))

\* What the chunks returned so far add up to.
AccumulatedSoFar ==
    [content |-> TextOf(returned),
     usage |-> [f \in UsageFields |-> ReturnedMax(f)],
     model |-> ModelName,
     finish_reason |-> IF LastReason(returned).some THEN LastReason(returned).v
                     ELSE "Stop",
     tool_calls |-> finalize_calls(ReturnedCalls(returned))]

HasSlash(s) == \E i \in 1..Len(s) : s[i] = SLASH

\* The position of the first slash of a string that has one.
FirstSlash(s) == CHOOSE i \in 1..Len(s) : s[i] = SLASH /\ \A j \in 1..(i - 1) : s[j] # SLASH

\* C28: ModelId::parse fails, with invalid-model, exactly for the strings
\* that have no slash or have nothing before or nothing after their first
\* slash; for every other string the provider, a slash and the model put
\* together are the string again, and the provider holds no slash.
C28_ParseThenReassemble ==
    LET s == request.model
        bad == \/ ~HasSlash(s)
               \/ FirstSlash(s) = 1
               \/ FirstSlash(s) = Len(s)
    IN model_id # NotParsed =>
          /\ bad <=> model_id = ParseFailed(InvalidModel)
          /\ ~bad =>
                /\ model_id.tag = "ok"
                /\ model_id.provider \o <<SLASH>> \o model_id.model = s
                /\ ~HasSlash(model_id.provider)

\* C28 witness: a string with two slashes was accepted, the second slash
\* being part of the model.
C28_ModelWithSlash ==
    /\ request.model = <<"a", SLASH, "b", SLASH>>
    /\ model_id = Parsed(<<"a">>, <<"b", SLASH>>)

(***************************************************************************)
(* Properties of a send from the builder on (specification SpecRequest).   *)
(***************************************************************************)
\* The string has no slash, or nothing before or after its first slash.
Malformed_id(s) == ~HasSlash(s) \/ FirstSlash(s) = 1 \/ FirstSlash(s) = Len(s)

\* What stands before the first slash.
ProviderPart(s) == SubSeq(s, 1, FirstSlash(s) - 1)

Registered(name) == \E p \in Providers : name = <<p>>

\* The send returned the error without a request, a retry or a sleep.
FailedUnsent(e) ==
    /\ pc = "done"
    /\ result = Failed(e)
    /\ posts = 0
    /\ attempt = 0
    /\ sleeps = <<>>
    /\ log = <<>>

\* C29: once send() or send_complete() was called, a model string that is
\* malformed or names a provider without an adapter has failed the send with
\* invalid-model, and one that names an adapter the client holds no key for
\* has failed it with missing-api-key, in both cases before any request,
\* retry or sleep.
C29_RejectedBeforeAnyRequest ==
    LET s == request.model
    IN pc # "new" =>
          /\ (Malformed_id(s) \/ ~Registered(ProviderPart(s))) => FailedUnsent(InvalidModel)
          /\ (~Malformed_id(s) /\ Registered(ProviderPart(s))
                 /\ ProviderPart(s) \notin api_keys) => FailedUnsent(MissingApiKey)

\* C29 witness: a send for the registered provider cerebras on a client
\* that holds keys for other names only failed with missing-api-key.
C29_NoKeyForCerebras ==
    /\ request.model = <<"cerebras", SLASH, "m">>
    /\ api_keys = {<<"claude">>, <<"nope">>}
    /\ FailedUnsent(MissingApiKey)

(***************************************************************************)
(* Properties of two concurrent sends (specification SpecConcurrent).      *)
(***************************************************************************)
\* The backoff a send holds when it matches the i-th response of its log.
RECURSIVE BackoffAt(_, _, _, _)
BackoffAt(c, m, lg, i) ==
    IF i = 1 THEN c.retry_backoff
    ELSE NextBackoff(c, MatchResponse(c, m, i - 1, BackoffAt(c, m, lg, i - 1),
                                      lg[i - 1]).backoff)

\* What a send that runs alone returns after the responses of the log.
Outcome(c, m, lg) ==
    IF lg = <<>> THEN Pending
    ELSE MatchResponse(c, m, Len(lg), BackoffAt(c, m, lg, Len(lg)), lg[Len(lg)]).result

\* C30: under every interleaving of two sends on one client, each send has
\* counted only its own requests, has issued at most max(max_retries, 1) of
\* them, and holds the outcome a send running alone has after the same
\* responses.
C30_SendsAreIndependent ==
    /\ attempt = posts /\ posts <= Max(cfg.max_retries, 1)
    /\ peer.attempt = peer.posts /\ peer.posts <= Max(cfg.max_retries, 1)
    /\ pc # "await" => result = Outcome(cfg, mode, log)
    /\ peer.pc # "await" => peer.result = Outcome(cfg, peer.mode, peer.log)

\* C30 witness: on a client with max_retries = 2 one send was answered 500
\* twice and failed while the other, started in between, succeeded at once.
C30_OneFailsOneSucceeds ==
    /\ cfg.max_retries = 2
    /\ pc = "done" /\ log = <<Http500, Http500>> /\ result = Failed(ServerError(500))
    /\ peer.pc = "done" /\ peer.log = <<Ok200>> /\ peer.result.tag \in {"ok", "stream"}

\* C30 as stated: each of the two sends issues at most max_retries requests.
C30_EachAtMostMaxRetries ==
    posts <= cfg.max_retries /\ peer.posts <= cfg.max_retries

(***************************************************************************)
(* The usage of an Anthropic stream.                                       *)
(***************************************************************************)
\* The events of the given type among the payloads, deserialised, in order.
ClaudeEventsOf(datas, types) ==
    SelectSeq([i \in 1..Len(datas) |-> ClaudeJsonOf(datas[i])],
              LAMBDA e : e.valid /\ e.type \in types)

\* The output_tokens message_start and the message_delta events report, in order.
OutputReports(datas) ==
    LET evs == ClaudeEventsOf(datas, {"message_start", "message_delta"})
    IN [i \in 1..Len(evs) |-> evs[i].output_tokens]

NonDecreasing(seq) == \A i \in 1..(Len(seq) - 1) : seq[i] <= seq[i + 1]

\* The stream opened with message_start and a message_delta followed.
StartThenDelta(datas) ==
    /\ datas # <<>>
    /\ ClaudeJsonOf(datas[1]).valid
    /\ ClaudeJsonOf(datas[1]).type = "message_start"
    /\ ClaudeEventsOf(datas, {"message_start"}) = <<ClaudeJsonOf(datas[1])>>
    /\ ClaudeEventsOf(datas, {"message_delta"}) # <<>>

\* The usage the stream holds, or held when it was finalized.
HeldUsage == IF life = "consumed" THEN final.value.usage ELSE cs.usage

\* C31: for an Anthropic stream that opened with message_start and has
\* decoded at least one message_delta, with output_tokens never decreasing
\* from one report to the next, the accumulated usage has the input_tokens of
\* message_start and the output_tokens of the last message_delta, and
\* finalize() reports them.
C31_ClaudeUsageTotals ==
    (provider = "claude" /\ life # "none" /\ StartThenDelta(ConsumedEvents)
        /\ NonDecreasing(OutputReports(ConsumedEvents))) =>
        /\ HeldUsage.input_tokens = ClaudeJsonOf(ConsumedEvents[1]).input_tokens
        /\ HeldUsage.output_tokens =
               Last(ClaudeEventsOf(ConsumedEvents, {"message_delta"})).output_tokens

\* C31 witness: message_start reported 7 input and 1 output tokens, two
\* message_delta events reported 4 and then 9 output tokens, both chunks were
\* returned, and the stream finalized with 7 input and 9 output tokens.
C31_StartSevenDeltaNine ==
    /\ provider = "claude"
    /\ OutputReports(ConsumedEvents) = <<1, 4, 9>>
    /\ Len(returned) >= 3
    /\ returned[2].tag = "chunk" /\ returned[2].chunk.usage = Some(PromptCompletion(7, 4))
    /\ returned[3].tag = "chunk" /\ returned[3].chunk.usage = Some(PromptCompletion(7, 9))
    /\ final.tag = "ok"
    /\ final.value.usage = PromptCompletion(7, 9)

(***************************************************************************)
(* The running tool index of the Anthropic and Responses decoders.         *)
(***************************************************************************)
\* The type and block of the i-th event, by the decoder that reads it.
EventType(prov, datas, i) ==
    IF prov = "claude" THEN ClaudeJsonOf(datas[i]).type ELSE OpenAIJsonOf(datas[i]).type

\* The i-th event carries a fragment of tool arguments.
IsFragment(prov, datas, i) ==
    IF prov = "claude"
    THEN /\ EventType(prov, datas, i) = "content_block_delta"
         /\ ClaudeJsonOf(datas[i]).block = "input_json_delta"
    ELSE EventType(prov, datas, i) = "response.function_call_arguments.delta"

\* The i-th event closes a tool block: function_call_arguments.done, or the
\* content_block_stop of a block that a content_block_start opened as tool_use.
IsToolClose(prov, datas, i) ==
    IF prov = "claude"
    THEN /\ EventType(prov, datas, i) = "content_block_stop"
         /\ \E j \in 1..(i - 1) :
               /\ EventType(prov, datas, j) = "content_block_start"
               /\ ClaudeJsonOf(datas[j]).block = "tool_use"
               /\ \A k \in (j + 1)..(i - 1) :
                     EventType(prov, datas, k)
                         \notin {"content_block_start", "content_block_stop"}
    ELSE EventType(prov, datas, i) = "response.function_call_arguments.done"

ClosesBefore(prov, datas, i) ==
    Cardinality({j \in 1..(i - 1) : IsToolClose(prov, datas, j)})

\* For every fragment among the events from the i-th on, in order, the number
\* of tool blocks closed before it.
RECURSIVE FragmentIndices(_, _, _)
FragmentIndices(prov, datas, i) ==
    IF i > Len(datas) THEN <<>>
    ELSE (IF IsFragment(prov, datas, i) THEN <<ClosesBefore(prov, datas, i)>> ELSE <<>>)
         \o FragmentIndices(prov, datas, i + 1)

\* The index of every tool-delta returned, in order.
RECURSIVE ReturnedIndices(_)
ReturnedIndices(rets) ==
    IF rets = <<>> THEN <<>>
    ELSE ReturnedIndices(Front(rets))
         \o (IF Last(rets).tag = "chunk" /\ Last(rets).chunk.tool_call_delta.some
             THEN <<Last(rets).chunk.tool_call_delta.v.index>> ELSE <<>>)

\* C32: in an Anthropic or Responses stream the decoder's tool index is the
\* number of tool blocks closed so far (0 at the start, one more per
\* content_block_stop of a tool_use block or function_call_arguments.done,
\* unchanged by text and thinking blocks), and every argument fragment is
\* returned with the number of tool blocks closed before it as index, so the
\* fragments of the k-th tool call carry k-1 and no two tool calls share an index.
C32_RunningToolIndex ==
    (provider \in {"claude", "openai"} /\ life # "none") =>
        /\ cs.provider_parser.tool_index =
               ClosesBefore(provider, ConsumedEvents, Len(ConsumedEvents) + 1)
        /\ ReturnedIndices(returned) = FragmentIndices(provider, ConsumedEvents, 1)

\* C32 witness: an Anthropic stream closed a thinking block, a text block and
\* two tool_use blocks; the fragment of the first tool call was returned with
\* index 0 and that of the second with index 1.
C32_TwoToolBlocksAfterText ==
    /\ provider = "claude"
    /\ Len(ConsumedEvents) >= 13
    /\ ConsumedEvents[2] = <<"K">>
    /\ ConsumedEvents[5] = <<"X">>
    /\ ReturnedIndices(returned) = <<0, 1>>
    /\ cs.provider_parser.tool_index = 2

(***************************************************************************)
(* The function calls of a Gemini stream.                                  *)
(***************************************************************************)
\* The name and arguments of every functionCall part of an event, in order.
RECURSIVE PartsCalls(_)
PartsCalls(parts) ==
    IF parts = <<>> THEN <<>>
    ELSE (IF Head(parts).function_call.some
          THEN <<[name |-> Head(parts).function_call.name,
                  arguments |-> Head(parts).function_call.args]>>
          ELSE <<>>) \o PartsCalls(Tail(parts))

GeminiCallsOf(data) ==
    LET doc == GeminiJsonOf(data)
    IN IF doc.candidates # <<>> /\ doc.candidates[1].content.some
       THEN PartsCalls(doc.candidates[1].content.parts)
       ELSE <<>>

RECURSIVE GeminiCalls(_)
GeminiCalls(datas) ==
    IF datas = <<>> THEN <<>>
    ELSE GeminiCallsOf(Head(datas)) \o GeminiCalls(Tail(datas))

\* C33: for a Gemini body of well-formed events that the server closes, the
\* drained and finalized stream has one tool call per functionCall part of
\* the events, in order, each with the name and exactly the arguments of
\* its part.
C33_GeminiCallPerPart ==
    (provider = "gemini" /\ DrainedToClose
        /\ \A i \in 1..Len(DeliveredEvents) : GeminiJsonOf(DeliveredEvents[i]).valid) =>
        LET calls == GeminiCalls(DeliveredEvents)
        IN /\ Len(final.value.tool_calls) = Len(calls)
           /\ \A i \in 1..Len(calls) :
                 /\ final.value.tool_calls[i].name = calls[i].name
                 /\ final.value.tool_calls[i].arguments = calls[i].arguments

(***************************************************************************)
(* Events of the OpenAI-compatible decoder with several tool_calls entries. *)
(***************************************************************************)
\* The entries of choices[0].delta.tool_calls of an event.
ToolCallEntries(data) ==
    LET doc == JsonOf(data)
    IN IF doc.valid /\ doc.choices # <<>> /\ doc.choices[1].tool_calls.some
       THEN doc.choices[1].tool_calls.v
       ELSE <<>>

RECURSIVE AllEntries(_)
AllEntries(datas) ==
    IF datas = <<>> THEN <<>>
    ELSE ToolCallEntries(Head(datas)) \o AllEntries(Tail(datas))

\* The builders the entries add up to, each applied at its own index.
RECURSIVE ApplyAll(_)
ApplyAll(entries) ==
    IF entries = <<>> THEN <<>>
    ELSE apply(ApplyAll(Front(entries)), Last(entries))

\* C34: the tool calls of a finalized OpenAI-compatible stream are those the
\* tool_calls entries of all decoded events add up to, every entry applied
\* at its own index, the entries after the first of an event included.
C34_EveryEntryApplied ==
    (provider = "cerebras" /\ final.tag = "ok") =>
        final.value.tool_calls = finalize_calls(ApplyAll(AllEntries(ConsumedEvents)))

(***************************************************************************)
(* Buffer compaction.                                                      *)
(***************************************************************************)
\* The consumed prefix exceeds both half of the buffer and the threshold.
CompactionDue(p) == 2 * p.consumed > Len(p.buffer) /\ p.consumed > CompactThreshold

\* C35: a feed() on a parser whose consumed prefix exceeds both half of the
\* buffer length and 4096 bytes removes exactly that prefix and resets the
\* consumed offset to 0 before it appends; any other feed() only appends;
\* either way every unconsumed byte is kept and the events produced afterwards
\* are those the parser would have produced without compaction.
C35_CompactsWhenDue ==
    [][fed' # fed =>
          LET data == SubSeq(BytesOf(blocks), fed + 1, fed')
          IN /\ CompactionDue(parser) =>
                   /\ parser'.consumed = 0
                   /\ parser'.buffer = Drop(parser.buffer, parser.consumed) \o data
             /\ ~CompactionDue(parser) =>
                   /\ parser'.consumed = parser.consumed
                   /\ parser'.buffer = parser.buffer \o data
             /\ Drop(parser'.buffer, parser'.consumed)
                   = Drop(parser.buffer, parser.consumed) \o data
             /\ DrainAll(parser') = DrainAll([parser EXCEPT !.buffer = @ \o data])]_vars

\* C35 witness: after an event longer than 4096 bytes was consumed, a feed()
\* removed it from the buffer, and the events fed after it came out unchanged.
C35_CompactedAndDrained ==
    /\ AllFedAndDrained
    /\ Len(parser.buffer) < fed
    /\ Len(parser.buffer) + CompactThreshold < fed
    /\ Len(blocks) = 3
    /\ events = FedAtOnce
    /\ Len(events) = 3

(***************************************************************************)
(* Keys loaded from the environment.                                       *)
(***************************************************************************)
\* The name under which the adapter of each variable's vendor is registered.
AdapterOf(env_var) ==
    CASE env_var = "CEREBRAS_API_KEY" -> <<"cerebras">>
      [] env_var = "OPENAI_API_KEY" -> <<"openai">>
      [] env_var = "ANTHROPIC_API_KEY" -> <<"claude">>
      [] env_var = "GEMINI_API_KEY" -> <<"gemini">>

\* C36: on a client built by the environment loader, a send with a
\* well-formed model id for the adapter of a variable that was set does not
\* fail with missing-api-key or invalid-model.
C36_EnvKeyReachesAdapter ==
    (pc \notin {"build", "new"}
        /\ \E v \in environ : ProviderPart(request.model) = AdapterOf(v)) =>
        result \notin {Failed(MissingApiKey), Failed(InvalidModel)}

(***************************************************************************)
(* The end of a stream.                                                    *)
(***************************************************************************)
\* A next() call has returned end-of-stream or reported a transport error.
Ended ==
    \E k \in 1..Len(returned) :
        returned[k].tag = "end" \/ returned[k] = YieldErr(HttpError)

\* C37: once next() has returned end-of-stream or reported a transport
\* error, the stream is marked done, and every later next() returns
\* end-of-stream at once: it does not wait for the transport, takes no bytes
\* from it, leaves the buffered events undecoded and leaves content, usage,
\* finish reason and tool calls as they were.
C37_EndIsAbsorbing ==
    [][(Ended /\ life = "live") =>
          /\ cs.done
          /\ spc = "idle" /\ spc' = "idle"
          /\ off' = off /\ inner' = inner
          /\ returned' # returned => returned' = Append(returned, EndOfStream)
          /\ life' = "live" => cs' = cs
          /\ life' = "consumed" => final' = Finalized("ok", Aggregate(cs), NoError)]_vars

\* C37 witness: the sentinel arrived together with an event after it; next()
\* returned end-of-stream at the sentinel and again on the following call,
\* with the later event still in the buffer.
C37_EndTwiceAfterSentinel ==
    /\ life = "live"
    /\ wire = Ev(<<"a">>) \o Ev(DONE) \o Ev(<<"b">>)
    /\ off = Len(wire)
    /\ returned = <<Yield(text_owned(<<"a">>)), EndOfStream, EndOfStream>>
    /\ next_event(cs.parser).event.some
    /\ cs.content = <<"a">>

(***************************************************************************)
(* Bytes of an unterminated event at the close of the body.                *)
(***************************************************************************)
\* The bytes the stream has buffered and not consumed.
Unconsumed == Drop(cs.parser.buffer, cs.parser.consumed)

\* C38: when a next() call that waits for the transport sees the body close
\* while the buffer holds bytes without a terminating blank line, it returns
\* end-of-stream, neither a chunk nor an error, and changes nothing of the
\* stream but the done mark: the bytes stay undecoded and content, usage,
\* finish reason and tool calls are as before.
C38_UnterminatedBytesDropped ==
    [][(spc = "polling" /\ inner' = "closed"
           /\ Unconsumed # <<>> /\ ~HasBlankLine(Unconsumed)) =>
          /\ returned' = Append(returned, EndOfStream)
          /\ cs' = [cs EXCEPT !.done = TRUE]]_vars

\* C38 witness: the body ended with the line `data: b` and no blank line; the
\* chunks of the two events before it were returned, then end-of-stream, and
\* the line is still in the buffer.
C38_ClosedOnPartialEvent ==
    /\ life = "live"
    /\ inner = "closed"
    /\ off = Len(wire)
    /\ Unconsumed = DataLine(<<"b">>)
    /\ Len(returned) = 3
    /\ returned[1].tag = "chunk" /\ returned[2].tag = "chunk"
    /\ returned[3] = EndOfStream
    /\ cs.content = <<>>
    /\ cs.done

(***************************************************************************)
(* The finish reason of a stream without one.                              *)
(***************************************************************************)
\* C39: while no chunk returned by next() has carried a finish reason, the
\* stream holds none, finalize() would report stop, and a stream finalized in
\* that state has reported stop.
C39_NoReasonFinalizesAsStop ==
    (life # "none" /\ ~LastReason(returned).some) =>
        /\ ~cs.finish_reason.some
        /\ (life = "live" /\ spc = "idle") =>
               /\ finalize(cs).tag = "ok"
               /\ finalize(cs).value.finish_reason = "Stop"
        /\ life = "consumed" => final.tag = "ok" /\ final.value.finish_reason = "Stop"

\* C39 witness: the transport failed after the first chunk, no chunk carried
\* a finish reason, and the stream was finalized with finish reason stop.
C39_CutOffReportsStop ==
    /\ life = "consumed"
    /\ inner = "failed"
    /\ returned = <<Yield(text_owned(<<"a">>)), YieldErr(HttpError)>>
    /\ final.tag = "ok"
    /\ final.value.finish_reason = "Stop"
    /\ final.value.content = <<"a">>

(***************************************************************************)
(* The backoff schedule after a Retry-After.                               *)
(***************************************************************************)
\* The seconds of the Retry-After of a 429 response, none for any other
\* response and for a 429 without the header.
RetryAfterSeconds(r) ==
    IF ~IsHttp(r, 429) THEN None
    ELSE IF r.retry_after = Header(<<"1", "2">>) THEN Some(12)
    ELSE IF r.retry_after = Header(<<"4", "5">>) THEN Some(45)
    ELSE None

\* C40 as stated: a sleep that follows a 429 with Retry-After n has base
\* delay n seconds, above max_backoff or not, and the sleep after it has base
\* delay min(n * multiplier, max_backoff), whatever was received in between.
C40_NextSleepFromRetryAfter ==
    \A i \in 1..Len(sleeps) :
        RetryAfterSeconds(log[i]).some =>
            LET n == RetryAfterSeconds(log[i]).v * MsPerSec
            IN /\ sleeps[i] = n
               /\ i < Len(sleeps) =>
                     sleeps[i + 1] = Min(n * cfg.backoff_multiplier, cfg.max_backoff)

\* C40, amended: a sleep that follows a 429 with Retry-After n has base delay
\* n seconds, above max_backoff or not; the sleep after it has base delay
\* min(n * multiplier, max_backoff), whatever the schedule had reached before,
\* unless the response between the two is again a 429 with Retry-After m, in
\* which case it has base delay m seconds.
C40_ScheduleRestartsAtRetryAfter ==
    \A i \in 1..Len(sleeps) :
        RetryAfterSeconds(log[i]).some =>
            LET n == RetryAfterSeconds(log[i]).v * MsPerSec
            IN /\ sleeps[i] = n
               /\ i < Len(sleeps) =>
                     sleeps[i + 1] =
                         IF RetryAfterSeconds(log[i + 1]).some
                         THEN RetryAfterSeconds(log[i + 1]).v * MsPerSec
                         ELSE Min(n * cfg.backoff_multiplier, cfg.max_backoff)

\* C40 witness: on a client with initial backoff 0.5 s the send slept 45 s
\* after a 429 with Retry-After 45, longer than max_backoff, and then, after
\* a 500, 30 s, which is min(45 * 2, 30).
C40_LongRetryAfterThenCap ==
    /\ cfg.retry_backoff = DefaultRetryBackoffMs
    /\ Len(log) >= 2
    /\ log[1] = Http429Long
    /\ log[2] = Http500
    /\ sleeps = <<45000, 30000>>

====
